---------------------------- MODULE Spec2Model ----------------------------
(***************************************************************************)
(* A model of the computational-model pipeline of cursor-telemetry:        *)
(*   scripts/calculate_cp.py       Context Precision calculator            *)
(*   scripts/cluster_sequences.py  sequence clustering script              *)
(*   sequence_processor.py         extractor and library builder           *)
(*   database_connector.py         the Gateway (database handle)           *)
(*   vectorizer.py                 event vectorizer and embedding lookup   *)
(* and of the SDK's real-time client:                                      *)
(*   sdk/python/cursor_telemetry/realtime.py   RealTimeClient              *)
(*                                                                         *)
(* Every component has its own variables and its own specification; a      *)
(* specification leaves the other components' variables at their idle      *)
(* values.  Python's None is the value NoneV, a missing dictionary key is  *)
(* the value Missing.  A fraction is a record [num, den] with den > 0.     *)
(***************************************************************************)
EXTENDS Integers, Sequences, FiniteSets, TLC

VARIABLES
    cpPhase, cpPrompt, cpDiff, cpResult,
    clPhase, clIn, clOut, clFit, clOut2,
    exGw, exMin, exMax, exOut,
    lbPc, lbIn, lbCfg, lbSeqs, lbClu, lbResult, lbCalls,
    cliIn, cliPc, cliDb, cliExit, cliTodo, cliQueries, cliLate, cliResult,
    emCfg, emModel, emCache, emLast, emReturned,
    vzPc, vzEmbeds, vzBatch, vzMap, vzEarlier, vzOut,
    bsPhase, bsScores, bsResult,
    ctPhase, ctIn, ctOut,
    gePhase, geIn, geOut,
    tfPc, tfArgs, tfArgv, tfFile, tfHow,
    rtUser, rtConnected, rtWebsocket, rtStop, rtAttempts, rtDelay, rtSockets, rtTasks,
    rtClosing, rtDisconnected, rtLate

cpVars == <<cpPhase, cpPrompt, cpDiff, cpResult>>
clVars == <<clPhase, clIn, clOut, clFit, clOut2>>
exVars == <<exGw, exMin, exMax, exOut>>
lbVars == <<lbPc, lbIn, lbCfg, lbSeqs, lbClu, lbResult, lbCalls>>
cliVars == <<cliIn, cliPc, cliDb, cliExit, cliTodo, cliQueries, cliLate, cliResult>>
emVars == <<emCfg, emModel, emCache, emLast, emReturned>>

vzVars == <<vzPc, vzEmbeds, vzBatch, vzMap, vzEarlier, vzOut>>

bsVars == <<bsPhase, bsScores, bsResult>>
ctVars == <<ctPhase, ctIn, ctOut>>
geVars == <<gePhase, geIn, geOut>>
tfVars == <<tfPc, tfArgs, tfArgv, tfFile, tfHow>>
rtVars == <<rtUser, rtConnected, rtWebsocket, rtStop, rtAttempts, rtDelay, rtSockets, rtTasks,
            rtClosing, rtDisconnected, rtLate>>

vars == <<cpVars, clVars, exVars, lbVars, cliVars, emVars, vzVars, bsVars, ctVars, geVars, tfVars, rtVars>>

NoneV == "<None>"
Missing == "<missing>"

(***************************************************************************)
(* General helpers                                                         *)
(***************************************************************************)
Range(s) == {s[i] : i \in 1..Len(s)}

SeqsUpTo(S, n) == UNION {[1..k -> S] : k \in 0..n}

\* The indices 1..Len(keys) in ascending order of their integer key, equal
\* keys in index order: what a stable sort (list.sort, sorted) produces.
StableOrder(keys) ==
    LET ins[n \in 0..Len(keys)] ==
            IF n = 0 THEN <<>>
            ELSE LET prev == ins[n - 1]
                     k == Cardinality({i \in 1..Len(prev) : keys[prev[i]] <= keys[n]})
                 IN  SubSeq(prev, 1, k) \o <<n>> \o SubSeq(prev, k + 1, Len(prev))
    IN  ins[Len(keys)]

\* s[:n]
Take(s, n) == SubSeq(s, 1, IF Len(s) < n THEN Len(s) ELSE n)

\* The concatenation of a sequence of sequences.
Flatten(ss) ==
    LET cat[i \in 0..Len(ss)] == IF i = 0 THEN <<>> ELSE cat[i - 1] \o ss[i]
    IN  cat[Len(ss)]

\* The distinct elements of s in order of first occurrence.
Distinct(s) ==
    LET pick[i \in 0..Len(s)] ==
            IF i = 0 THEN <<>>
            ELSE IF \E j \in 1..(i - 1) : s[j] = s[i] THEN pick[i - 1]
                 ELSE Append(pick[i - 1], s[i])
    IN  pick[Len(s)]

Count(s, x) == Cardinality({i \in 1..Len(s) : s[i] = x})

\* Python truthiness of a value that is None, a missing key or a string.
Truthy(v) == v # NoneV /\ v # Missing /\ v # ""

\* Python's `a or b`.
PyOr(a, b) == IF Truthy(a) THEN a ELSE b

(***************************************************************************)
(* Context Precision calculator: scripts/calculate_cp.py                   *)
(***************************************************************************)
MaxCtx == 3
MaxDiff == 2

CtxPaths == {"a.py", "b.py"}
DiffPaths == {"a.py", "c.py"}

StrEntry(s) == [t |-> "str", path |-> s, fileName |-> NoneV]
ObjEntry(p, f) == [t |-> "obj", path |-> p, fileName |-> f]
NullEntry == [t |-> "null", path |-> NoneV, fileName |-> NoneV]

\* The entries a context payload may hold: path strings (one empty), objects
\* carrying path or fileName (or neither), and a JSON null.
CtxEntries ==
    {StrEntry("a.py"), StrEntry("b.py"), StrEntry(""),
     ObjEntry("a.py", NoneV), ObjEntry(NoneV, "b.py"), ObjEntry(NoneV, NoneV),
     NullEntry}

ListShapes == {"list", "attachedFiles", "codebaseFiles", "files"}

\* The value of prompt['context_files_json']:
\*   form  "absent": key missing, None, '' or an empty container (falsy)
\*         "text":   a JSON string;  "value": an already parsed value
\*   shape "badjson" (text only), "scalar", "otherdict" (no known key),
\*         or one of ListShapes with its entries
CtxDescriptors ==
    {[form |-> "absent", shape |-> "none", entries |-> <<>>],
     [form |-> "text", shape |-> "badjson", entries |-> <<>>]}
    \cup {[form |-> f, shape |-> s, entries |-> <<>>] :
            f \in {"text", "value"}, s \in {"scalar", "otherdict"}}
    \cup {[form |-> f, shape |-> s, entries |-> e] :
            f \in {"text", "value"}, s \in ListShapes,
            e \in SeqsUpTo(CtxEntries, MaxCtx)}

\* f if isinstance(f, str) else f.get('path') or f.get('fileName')
\* (lines 36, 43); "raise" when f is neither a string nor an object.
EntryPathLenient(f) ==
    IF f.t = "str" THEN f.path
    ELSE IF f.t = "obj" THEN PyOr(f.path, f.fileName)
    ELSE "raise"

\* f.get('path') or f.get('fileName') (lines 39, 41); a string or a null
\* entry has no get(): "raise".
EntryPathStrict(f) ==
    IF f.t = "obj" THEN PyOr(f.path, f.fileName) ELSE "raise"

EntryPath(shape, f) ==
    IF shape \in {"list", "files"} THEN EntryPathLenient(f)
    ELSE EntryPathStrict(f)

\* [f for f in files if f]
FilterTruthy(files) == SelectSeq(files, Truthy)

\* An unrecognised value taken for a one-path list.
extract_context_files_guessing(d) ==
    IF d.form = "absent" THEN <<>> ELSE <<"a.py">>

extract_context_files(d) ==
    IF d.form = "absent" THEN <<>>
    ELSE IF d.shape = "badjson" THEN <<>>            \* json.loads raises
    ELSE IF d.shape \notin ListShapes THEN <<>>      \* files stays []
    ELSE LET files == [i \in 1..Len(d.entries) |-> EntryPath(d.shape, d.entries[i])]
         IN  IF \E i \in 1..Len(files) : files[i] = "raise"
             THEN <<>>                                \* except Exception
             ELSE FilterTruthy(files)

Frac(n, d) == [num |-> n, den |-> d]
FracEq(x, y) == x.num * y.den = y.num * x.den
FracLe(x, y) == x.num * y.den <= y.num * x.den

\* len(intersection) / len(context_files)
CpRatio(intersection, context_files) == Frac(Len(intersection), Len(context_files))

\* A membership test that never finds the file.
InDiffNever(f, diff_files) == FALSE

\* diff_set = set(diff_files); f in diff_set   (lines 70-72)
InDiff(f, diff_files) == f \in Range(diff_files)

calculate_cp(d, diff_files) ==
    LET context_files == extract_context_files(d)
        intersection == SelectSeq(context_files, LAMBDA f : InDiff(f, diff_files))
        unused == SelectSeq(context_files, LAMBDA f : ~InDiff(f, diff_files))
    IN  IF context_files = <<>>
        THEN [cp |-> Frac(0, 1),
              context_file_count |-> 0,
              diff_file_count |-> Len(diff_files),
              intersection_count |-> 0,
              context_files |-> <<>>,
              diff_files |-> diff_files,
              intersection |-> <<>>,
              unused_context_files |-> <<>>,
              keys |-> {"prompt_id", "cp", "context_file_count", "diff_file_count",
                        "intersection_count", "context_files", "diff_files",
                        "unused_context_files"}]
        ELSE [cp |-> CpRatio(intersection, context_files),
              context_file_count |-> Len(context_files),
              diff_file_count |-> Len(diff_files),
              intersection_count |-> Len(intersection),
              context_files |-> context_files,
              diff_files |-> diff_files,
              intersection |-> intersection,
              unused_context_files |-> unused,
              keys |-> {"prompt_id", "timestamp", "cp", "context_file_count",
                        "diff_file_count", "intersection_count", "context_files",
                        "diff_files", "intersection", "unused_context_files"}]

CpIdleResult == calculate_cp([form |-> "absent", shape |-> "none", entries |-> <<>>], <<>>)

CpIdle ==
    /\ cpPhase = "idle"
    /\ cpPrompt = [form |-> "absent", shape |-> "none", entries |-> <<>>]
    /\ cpDiff = <<>>
    /\ cpResult = CpIdleResult

CpInit ==
    /\ cpPhase = "input"
    /\ cpPrompt \in CtxDescriptors
    /\ cpDiff \in SeqsUpTo(DiffPaths, MaxDiff)
    /\ cpResult = CpIdleResult

CalculateCp ==
    /\ cpPhase = "input"
    /\ cpResult' = calculate_cp(cpPrompt, cpDiff)
    /\ cpPhase' = "done"
    /\ UNCHANGED <<cpPrompt, cpDiff>>
    /\ UNCHANGED <<clVars, exVars, lbVars, cliVars, emVars, vzVars, bsVars, ctVars, geVars, tfVars, rtVars>>

CpNext == CalculateCp

(***************************************************************************)
(* Sequence clustering script: scripts/cluster_sequences.py                *)
(*                                                                         *)
(* A sequence is the list of its events; an event is its event_type (its   *)
(* combined_vector is the one-hot of that type followed by the semantic    *)
(* part).  Sequence indices and cluster labels are 0-based as in the code. *)
(***************************************************************************)
MaxSeqs == 3
MaxK == 3
MaxMinSize == 3

\* The sequences a batch is drawn from (a batch may repeat one).
SeqPool == {<<"edit">>, <<"edit", "prompt">>, <<"prompt", "edit", "edit">>}

Methods == {"dtw", "kmeans"}

ClusterInputs ==
    [seqs : SeqsUpTo(SeqPool, MaxSeqs),
     method : Methods,
     n_clusters : 1..MaxK,
     min_size : 1..MaxMinSize,
     HAS_TSLEARN : BOOLEAN]

Labelings(n, k) == [1..n -> 0..(k - 1)]

\* sklearn's KMeans(n_clusters=k).fit_predict on n samples: ValueError when
\* n < k, else one label in 0..k-1 per sample.  max() of an empty batch
\* raises before that (line 89).
KMeansOutcomes(n, k) ==
    IF n = 0 \/ n < k
    THEN {[kind |-> "raise", labels |-> <<>>]}
    ELSE {[kind |-> "labels", labels |-> l] : l \in Labelings(n, k)}

cluster_with_kmeans(sequences, n_clusters) ==
    KMeansOutcomes(Len(sequences), n_clusters)

\* tslearn's TimeSeriesKMeans(n_clusters=k, metric="dtw").fit_predict is not
\* code of this repository.  With n >= k it returns one label per sample.
\* With n < k every initialisation ends with an empty cluster; what
\* fit_predict then hands back is left open among the outcomes the call can
\* have: an exception, labels_ = None, or the labels of the last attempt.
\* max() of an empty batch raises before that (line 47).
DtwOutcomes(n, k) ==
    IF n = 0 THEN {[kind |-> "raise", labels |-> <<>>]}
    ELSE IF n < k
    THEN {[kind |-> "raise", labels |-> <<>>], [kind |-> "none", labels |-> <<>>]}
         \cup {[kind |-> "labels", labels |-> l] : l \in Labelings(n, k)}
    ELSE {[kind |-> "labels", labels |-> l] : l \in Labelings(n, k)}

cluster_with_dtw(sequences, n_clusters) ==
    DtwOutcomes(Len(sequences), n_clusters)

\* if args.method == 'dtw' and HAS_TSLEARN: ... else: ...   (lines 200-203)
UsesDtw(in) == in.method = "dtw" /\ in.HAS_TSLEARN

\* The distance the clustering call of lines 200-203 partitions with:
\* TimeSeriesKMeans(metric="dtw") in cluster_with_dtw (line 74), KMeans on the
\* flattened vectors (Euclidean) in cluster_with_kmeans (lines 93-110).
MetricUsed(in) == IF UsesDtw(in) THEN "dtw" ELSE "kmeans"

ClusterOutcomes(in) ==
    IF UsesDtw(in) THEN cluster_with_dtw(in.seqs, in.n_clusters)
    ELSE cluster_with_kmeans(in.seqs, in.n_clusters)

\* clusters = {}; for idx, label in enumerate(labels): ...   (lines 209-213)
\* The dictionary keeps its keys in order of first insertion.
LabelOrder(labels) == Distinct(labels)

ClusterMembers(labels, c) ==
    LET idxs[i \in 0..Len(labels)] ==
            IF i = 0 THEN <<>>
            ELSE IF labels[i] = c THEN Append(idxs[i - 1], i - 1) ELSE idxs[i - 1]
    IN  idxs[Len(labels)]

SumLen(idxs, all_sequences) ==
    LET acc[i \in 0..Len(idxs)] ==
            IF i = 0 THEN 0 ELSE acc[i - 1] + Len(all_sequences[idxs[i] + 1])
    IN  acc[Len(idxs)]

Abs(x) == IF x < 0 THEN -x ELSE x

\* abs(len(all_sequences[idx]) - avg_length), scaled by len(cluster_sequences)
LenDiff(idx, cluster_sequences, all_sequences) ==
    Abs(Len(all_sequences[idx + 1]) * Len(cluster_sequences)
        - SumLen(cluster_sequences, all_sequences))

\* The comparison of line 128 made non-strict: a later member at the same
\* distance replaces the earlier one.
find_representative_sequence_last(cluster_sequences, all_sequences) ==
    LET best[i \in 1..Len(cluster_sequences)] ==
            IF i = 1 THEN cluster_sequences[1]
            ELSE IF LenDiff(cluster_sequences[i], cluster_sequences, all_sequences)
                    <= LenDiff(best[i - 1], cluster_sequences, all_sequences)
                 THEN cluster_sequences[i]
                 ELSE best[i - 1]
    IN  IF cluster_sequences = <<>> THEN NoneV ELSE best[Len(cluster_sequences)]

find_representative_sequence(cluster_sequences, all_sequences) ==
    LET best[i \in 1..Len(cluster_sequences)] ==
            IF i = 1 THEN cluster_sequences[1]
            ELSE IF LenDiff(cluster_sequences[i], cluster_sequences, all_sequences)
                    < LenDiff(best[i - 1], cluster_sequences, all_sequences)
                 THEN cluster_sequences[i]
                 ELSE best[i - 1]
    IN  IF cluster_sequences = <<>> THEN NoneV ELSE best[Len(cluster_sequences)]

TopN == 5

\* The test of line 142 left out: every event is counted, typed or not.
extract_common_event_types_all(cluster_sequences, all_sequences) ==
    LET types_in_cluster == Flatten([i \in 1..Len(cluster_sequences) |->
                                        all_sequences[cluster_sequences[i] + 1]])
        types == Distinct(types_in_cluster)
        keys == [i \in 1..Len(types) |-> 0 - Count(types_in_cluster, types[i])]
        order == StableOrder(keys)
    IN  Take([i \in 1..Len(order) |-> types[order[i]]], TopN)

\* Counter(types_in_cluster).most_common(5): by descending count, equal counts
\* in order of first insertion; events without a type are not counted.
extract_common_event_types(cluster_sequences, all_sequences) ==
    LET events == Flatten([i \in 1..Len(cluster_sequences) |->
                               all_sequences[cluster_sequences[i] + 1]])
        types_in_cluster == SelectSeq(events, Truthy)
        types == Distinct(types_in_cluster)
        keys == [i \in 1..Len(types) |-> 0 - Count(types_in_cluster, types[i])]
        order == StableOrder(keys)
    IN  Take([i \in 1..Len(order) |-> types[order[i]]], TopN)

\* The comparison of line 218 made strict.
KeepsClusterStrict(sequence_indices, min_size) == Len(sequence_indices) > min_size

\* if len(sequence_indices) >= args.min_size:   (line 218)
KeepsCluster(sequence_indices, min_size) == Len(sequence_indices) >= min_size

ClusterRecord(cluster_id, sequence_indices, all_sequences) ==
    [cluster_id |-> cluster_id,
     frequency |-> Len(sequence_indices),
     representative_idx |-> find_representative_sequence(sequence_indices, all_sequences),
     sequence_indices |-> sequence_indices,
     avg_length |-> Frac(SumLen(sequence_indices, all_sequences), Len(sequence_indices)),
     event_types |-> extract_common_event_types(sequence_indices, all_sequences)]

\* for cluster_id, sequence_indices in clusters.items(): ...   (lines 216-231)
BuildLibrary(labels, all_sequences, min_size) ==
    LET order == LabelOrder(labels)
        kept == SelectSeq(order,
                    LAMBDA c : KeepsCluster(ClusterMembers(labels, c), min_size))
    IN  [i \in 1..Len(kept) |->
            ClusterRecord(kept[i], ClusterMembers(labels, kept[i]), all_sequences)]

NoClusterOutput ==
    [status |-> "none", exit_code |-> 0, method |-> "", n_clusters |-> 0,
     min_size |-> 0, total_sequences |-> 0, clusters_found |-> 0,
     cluster_assignments |-> <<>>, behavioral_library |-> <<>>]

\* main() from the clustering call on (lines 198-251): what the script
\* leaves behind for one outcome of the clustering call.
\*   "error": the except branch, message on stderr, exit(1), no output
\*   "crash": enumerate(None) raises outside the try, no output
\*   "ok":    the result is written to stdout
ClusterMain(in, outcome) ==
    IF outcome.kind = "raise"
    THEN [NoClusterOutput EXCEPT !.status = "error", !.exit_code = 1]
    ELSE IF outcome.kind = "none"
    THEN [NoClusterOutput EXCEPT !.status = "crash", !.exit_code = 1]
    ELSE LET lib == BuildLibrary(outcome.labels, in.seqs, in.min_size)
         IN  [status |-> "ok", exit_code |-> 0,
              method |-> in.method,
              n_clusters |-> in.n_clusters,
              min_size |-> in.min_size,
              total_sequences |-> Len(in.seqs),
              clusters_found |-> Len(lib),
              cluster_assignments |-> outcome.labels,
              behavioral_library |-> lib]

ClIdleInput ==
    [seqs |-> <<>>, method |-> "dtw", n_clusters |-> 1, min_size |-> 1,
     HAS_TSLEARN |-> FALSE]

\* An estimator seeded anew on every run.
random_state_unset == IF clPhase = "input" THEN 42 ELSE 43

\* random_state=42   (lines 78 and 110)
random_state == 42

NoFit == [seed |-> 0, metric |-> "", outcome |-> [kind |-> "raise", labels |-> <<>>]]

ClIdle ==
    /\ clPhase = "idle"
    /\ clIn = ClIdleInput
    /\ clOut = NoClusterOutput
    /\ clFit = NoFit
    /\ clOut2 = NoClusterOutput

ClInit ==
    /\ clPhase = "input"
    /\ clIn \in ClusterInputs
    /\ clOut = NoClusterOutput
    /\ clFit = NoFit
    /\ clOut2 = NoClusterOutput

\* One run of the script.  clFit keeps the estimator's seed and what
\* fit_predict gave: the estimator is a function of the data, n_clusters and
\* random_state.
RunClusterScript ==
    /\ clPhase = "input"
    /\ \E outcome \in ClusterOutcomes(clIn) :
           /\ clOut' = ClusterMain(clIn, outcome)
           /\ clFit' = [seed |-> random_state, metric |-> MetricUsed(clIn),
                        outcome |-> outcome]
    /\ clPhase' = "done"
    /\ UNCHANGED <<clIn, clOut2>>
    /\ UNCHANGED <<cpVars, exVars, lbVars, cliVars, emVars, vzVars, bsVars, ctVars, geVars, tfVars, rtVars>>

\* A second run of the script on the same input file and arguments: with the
\* seed of the first run fit_predict gives what it gave then, with another
\* seed any of its outcomes.
RunClusterScriptAgain ==
    /\ clPhase = "done"
    /\ \E outcome \in ClusterOutcomes(clIn) :
           /\ random_state = clFit.seed => outcome = clFit.outcome
           /\ clOut2' = ClusterMain(clIn, outcome)
    /\ clPhase' = "again"
    /\ UNCHANGED <<clIn, clOut, clFit>>
    /\ UNCHANGED <<cpVars, exVars, lbVars, cliVars, emVars, vzVars, bsVars, ctVars, geVars, tfVars, rtVars>>

ClNext ==
    \/ RunClusterScript
    \/ RunClusterScriptAgain

(***************************************************************************)
(* Sequence extractor: SequenceProcessor.extract_sequences                 *)
(*                                                                         *)
(* The Gateway's join result is a list of event rows in retrieval order;   *)
(* a row's id is its position in that list.  Timestamps are strings,       *)
(* compared as Python compares strings; '' is the least of them.           *)
(***************************************************************************)
MaxEvents == 3
DefaultMinLen == 3
DefaultMaxLen == 50

SessionIds == {NoneV, "s1", "s2"}
Timestamps == {Missing, NoneV, "t1", "t2"}

EventShapes == [session_id : SessionIds, timestamp : Timestamps]

\* The list get_events_with_prompts returns.
GatewayOutputs ==
    {[i \in 1..Len(shapes) |->
         [id |-> i, session_id |-> shapes[i].session_id,
          timestamp |-> shapes[i].timestamp]] :
     shapes \in SeqsUpTo(EventShapes, MaxEvents)}

\* The (min_sequence_length, max_sequence_length) pairs a call is made with;
\* the last is the pair of defaults.
LenBounds == {<<1, 2>>, <<2, 2>>, <<2, 3>>, <<DefaultMinLen, DefaultMaxLen>>}

\* event.get('session_id') or 'default'
SessionOf(event) == PyOr(event.session_id, "default")

\* e.get('timestamp', ''): the default stands in for a missing key only.
SortKey(e) == IF e.timestamp = Missing THEN "" ELSE e.timestamp

\* The rank of a string key in Python's string order.
KeyRank(k) == CASE k = "" -> 0 [] k = "t1" -> 1 [] k = "t2" -> 2 [] OTHER -> 0 - 1

\* list.sort compares the keys with <; None is not comparable with a string
\* or with None, and every element of a list of two or more is compared.
SortRaises(session_events) ==
    /\ Len(session_events) >= 2
    /\ \E i \in 1..Len(session_events) : SortKey(session_events[i]) = NoneV

\* A sort by timestamp that is not stable: equal timestamps come out in
\* reverse retrieval order.
SortSessionUnstable(session_events) ==
    LET n == Len(session_events)
        order == StableOrder([i \in 1..n |->
                     KeyRank(SortKey(session_events[i])) * (n + 1) + (n - i)])
    IN  [i \in 1..Len(order) |-> session_events[order[i]]]

\* session_events.sort(key=lambda e: e.get('timestamp', ''))
SortSession(session_events) ==
    LET order == StableOrder([i \in 1..Len(session_events) |->
                                 KeyRank(SortKey(session_events[i]))])
    IN  [i \in 1..Len(order) |-> session_events[order[i]]]

\* The bounds of line 47 made exclusive.
WithinBoundsExclusive(n, min_len, max_len) == min_len < n /\ n < max_len

\* min_sequence_length <= len(session_events) <= max_sequence_length
WithinBounds(n, min_len, max_len) == min_len <= n /\ n <= max_len

\* sequences_by_session: the session keys in order of first insertion, and
\* each key's events in retrieval order.
SessionOrder(events) == Distinct([i \in 1..Len(events) |-> SessionOf(events[i])])

SessionEvents(events, session) ==
    SelectSeq(events, LAMBDA e : SessionOf(e) = session)

extract_sequences(events, min_len, max_len) ==
    LET sessions == SessionOrder(events)
        groups == [i \in 1..Len(sessions) |-> SessionEvents(events, sessions[i])]
        kept == SelectSeq([i \in 1..Len(groups) |-> SortSession(groups[i])],
                          LAMBDA g : WithinBounds(Len(g), min_len, max_len))
    IN  IF \E i \in 1..Len(groups) : SortRaises(groups[i])
        THEN [status |-> "raise", sequences |-> <<>>]     \* TypeError
        ELSE [status |-> "ok", sequences |-> kept]

ExIdle ==
    /\ exGw = <<>>
    /\ exMin = 0
    /\ exMax = 0
    /\ exOut = <<>>

ExInit ==
    /\ exGw \in GatewayOutputs
    /\ \E b \in LenBounds : exMin = b[1] /\ exMax = b[2]
    /\ exOut = <<>>

\* One call of extract_sequences; a second call reads the same Gateway
\* output again.
ExtractSequences ==
    /\ exMin > 0
    /\ Len(exOut) < 2
    /\ exOut' = Append(exOut, extract_sequences(exGw, exMin, exMax))
    /\ UNCHANGED <<exGw, exMin, exMax>>
    /\ UNCHANGED <<cpVars, clVars, lbVars, cliVars, emVars, vzVars, bsVars, ctVars, geVars, tfVars, rtVars>>

ExNext == ExtractSequences

(***************************************************************************)
(* Library builder: SequenceProcessor.build_behavioral_library, with       *)
(* vectorize_sequences and cluster_sequences as it calls them              *)
(***************************************************************************)
MaxLibEvents == 6
MAX_CLUSTERS == 20
MIN_CLUSTER_SIZE == 3

\* The event rows of a library run: two sessions, and a row without a
\* timestamp.
LibEventShapes ==
    {[session_id |-> "s1", timestamp |-> "t1", type |-> "edit"],
     [session_id |-> "s2", timestamp |-> "t1", type |-> "prompt"],
     [session_id |-> "s1", timestamp |-> NoneV, type |-> "edit"]}

LibGatewayOutputs ==
    {[i \in 1..Len(shapes) |->
         [id |-> i, session_id |-> shapes[i].session_id,
          timestamp |-> shapes[i].timestamp, type |-> shapes[i].type]] :
     shapes \in SeqsUpTo(LibEventShapes, MaxLibEvents)}

\* The min_cp argument: None, 0.0 or a positive threshold.
MinCpArgs == {"None", "0.0", "0.9"}

\* config.py as read from the environment (defaults: dtw, 20, 3), and whether
\* tslearn can be imported by the clustering script.
LibConfigs ==
    [CLUSTERING_METHOD : Methods,
     MAX_CLUSTERS : {1, 2, MAX_CLUSTERS},
     MIN_CLUSTER_SIZE : {1, MIN_CLUSTER_SIZE},
     HAS_TSLEARN : BOOLEAN]

DefaultConfig ==
    [CLUSTERING_METHOD |-> "dtw", MAX_CLUSTERS |-> MAX_CLUSTERS,
     MIN_CLUSTER_SIZE |-> MIN_CLUSTER_SIZE, HAS_TSLEARN |-> TRUE]

\* min_cp = min_cp or config.MIN_CP_THRESHOLD
EffectiveMinCp(min_cp) == IF min_cp \in {"None", "0.0"} THEN "0.5" ELSE min_cp

\* vectorize_sequences as the clustering script reads its result: per
\* sequence the list of its events' event_type.
VectorizedTypes(sequences) ==
    [i \in 1..Len(sequences) |->
        [j \in 1..Len(sequences[i]) |-> sequences[i][j].type]]

\* The script's command line as cluster_sequences builds it (lines 94-96,
\* 115-123).
ScriptInput(vectorized, cfg) ==
    [seqs |-> vectorized,
     method |-> cfg.CLUSTERING_METHOD,
     n_clusters |-> cfg.MAX_CLUSTERS,
     min_size |-> cfg.MIN_CLUSTER_SIZE,
     HAS_TSLEARN |-> cfg.HAS_TSLEARN]

\* The script prints its tslearn warning on stdout (line 22), ahead of the
\* JSON result.
StdoutIsJson(cfg) == cfg.HAS_TSLEARN

\* SequenceProcessor.cluster_sequences for one run of the script: "raise"
\* (CalledProcessError on a non-zero exit, JSONDecodeError on stdout that is
\* not JSON) or the parsed result.
OrchestratorCluster(cfg, out) ==
    IF out.status # "ok" THEN [status |-> "raise", result |-> NoClusterOutput]
    ELSE IF ~StdoutIsJson(cfg) THEN [status |-> "raise", result |-> NoClusterOutput]
    ELSE [status |-> "ok", result |-> out]

LibraryKeys ==
    {"workspace_path", "total_sequences", "clusters_found", "behavioral_library",
     "clustering_metadata"}

\* return {'error': 'No sequences found', 'library': []}   (lines 145-149)
EmptyLibraryResult ==
    [keys |-> {"error", "library"}, total_sequences |-> 0, clusters_found |-> 0,
     behavioral_library |-> <<>>]

\* A loop that keeps a cluster only under the default threshold.
FilterByCpThreshold(clusters, min_cp) == IF min_cp = "0.5" THEN clusters ELSE <<>>

\* The loop of lines 158-172 appends every cluster; min_cp is not read.
FilterByCp(clusters, min_cp) == clusters

\* lines 174-180
LibraryResult(sequences, clustering_result, min_cp) ==
    LET behavioral_library == FilterByCp(clustering_result.behavioral_library, min_cp)
    IN  [keys |-> LibraryKeys,
         total_sequences |-> Len(sequences),
         clusters_found |-> Len(behavioral_library),
         behavioral_library |-> behavioral_library]

NoLibraryResult ==
    [keys |-> {}, total_sequences |-> 0, clusters_found |-> 0,
     behavioral_library |-> <<>>]

LbIdle ==
    /\ lbPc = "idle"
    /\ lbIn = [gw |-> <<>>, min_cp |-> "None"]
    /\ lbCfg = DefaultConfig
    /\ lbSeqs = <<>>
    /\ lbClu = NoClusterOutput
    /\ lbResult = NoLibraryResult
    /\ lbCalls = <<>>

LbInit ==
    /\ lbPc = "start"
    /\ lbIn \in [gw : LibGatewayOutputs, min_cp : MinCpArgs]
    /\ lbCfg \in LibConfigs
    /\ lbSeqs = <<>>
    /\ lbClu = NoClusterOutput
    /\ lbResult = NoLibraryResult
    /\ lbCalls = <<>>

LbOthers == <<cpVars, clVars, exVars, cliVars, emVars, vzVars, bsVars, ctVars, geVars, tfVars, rtVars>>

\* sequences = self.extract_sequences(workspace_path=workspace_path)
LibExtract ==
    /\ lbPc = "start"
    /\ LET out == extract_sequences(lbIn.gw, DefaultMinLen, DefaultMaxLen)
       IN  /\ lbSeqs' = out.sequences
           /\ lbPc' = IF out.status = "raise" THEN "raised" ELSE "extracted"
    /\ lbCalls' = Append(lbCalls, "extract")
    /\ UNCHANGED <<lbIn, lbCfg, lbClu, lbResult>>
    /\ UNCHANGED LbOthers

\* if not sequences: return {...}
LibReturnEmpty ==
    /\ lbPc = "extracted"
    /\ lbSeqs = <<>>
    /\ lbResult' = EmptyLibraryResult
    /\ lbPc' = "returned"
    /\ UNCHANGED <<lbIn, lbCfg, lbSeqs, lbClu, lbCalls>>
    /\ UNCHANGED LbOthers

\* vectorized = self.vectorize_sequences(sequences)
LibVectorize ==
    /\ lbPc = "extracted"
    /\ lbSeqs # <<>>
    /\ lbPc' = "vectorized"
    /\ lbCalls' = Append(lbCalls, "vectorize")
    /\ UNCHANGED <<lbIn, lbCfg, lbSeqs, lbClu, lbResult>>
    /\ UNCHANGED LbOthers

\* clustering_result = self.cluster_sequences(vectorized)
LibCluster ==
    /\ lbPc = "vectorized"
    /\ \E outcome \in ClusterOutcomes(ScriptInput(VectorizedTypes(lbSeqs), lbCfg)) :
          LET in == ScriptInput(VectorizedTypes(lbSeqs), lbCfg)
              got == OrchestratorCluster(lbCfg, ClusterMain(in, outcome))
          IN  /\ lbClu' = got.result
              /\ lbPc' = IF got.status = "raise" THEN "raised" ELSE "clustered"
    /\ lbCalls' = Append(lbCalls, "cluster")
    /\ UNCHANGED <<lbIn, lbCfg, lbSeqs, lbResult>>
    /\ UNCHANGED LbOthers

\* lines 157-180
LibAssemble ==
    /\ lbPc = "clustered"
    /\ lbResult' = LibraryResult(lbSeqs, lbClu, EffectiveMinCp(lbIn.min_cp))
    /\ lbPc' = "returned"
    /\ UNCHANGED <<lbIn, lbCfg, lbSeqs, lbClu, lbCalls>>
    /\ UNCHANGED LbOthers

LbNext ==
    \/ LibExtract
    \/ LibReturnEmpty
    \/ LibVectorize
    \/ LibCluster
    \/ LibAssemble

(***************************************************************************)
(* The two command-line entry points: main() of scripts/calculate_cp.py    *)
(* and main() of sequence_processor.py, with the Gateway connection        *)
(* (DatabaseConnector).  Every query and every stage may raise.            *)
(*   cliDb      "none" (never acquired), "open", "closed"                  *)
(*   cliExit    the pending or final exit code, -1 while none is set       *)
(*   cliLate    a query was issued while the connection was not open       *)
(***************************************************************************)
MaxPrompts == 2
DefaultLimit == 1000

PromptIds == 1..MaxPrompts

\* The prompts table in timestamp order: a list of distinct prompt ids.
PromptStores ==
    {st \in SeqsUpTo(PromptIds, MaxPrompts) :
        \A i, j \in 1..Len(st) : i # j => st[i] # st[j]}

\* --prompt-id (0 stands for the flag not given, and for an id of 0),
\* --baseline, --limit, --output
CpCliArgs ==
    [prompt_id : {0} \cup PromptIds, baseline : BOOLEAN,
     limit : {1, DefaultLimit}, output : BOOLEAN]

NoCliArgs == [prompt_id |-> 0, baseline |-> FALSE, limit |-> DefaultLimit, output |-> FALSE]

\* get_prompts(limit=n): ORDER BY timestamp ASC LIMIT n
get_prompts(store, limit) == Take(store, limit)

\* The try ... finally of calculate_cp.main (lines 172-206): every way out of
\* the try block, an exception and sys.exit(1) included, runs db.close().
CpMainLeaveTry(how) == "cp_finally"

\* The try ... finally of sequence_processor.main without its finally for
\* the exceptional ways out.
LibMainLeaveTryNoFinally(how) == IF how = "ok" THEN "lib_finally" ELSE "exited"

\* The try ... finally of sequence_processor.main (lines 215-227).
LibMainLeaveTry(how) == "lib_finally"

\* DatabaseConnector.close
close(db) == "closed"

CliIdle ==
    /\ cliIn = [prog |-> "none", args |-> NoCliArgs, store |-> <<>>]
    /\ cliPc = "idle"
    /\ cliDb = "none"
    /\ cliExit = 0 - 1
    /\ cliTodo = <<>>
    /\ cliQueries = 0
    /\ cliLate = FALSE
    /\ cliResult = [kind |-> "none", prompt_id |-> 0]

CliInit ==
    /\ cliIn \in [prog : {"cp"}, args : CpCliArgs, store : PromptStores]
               \cup [prog : {"library"}, args : {NoCliArgs}, store : {<<>>}]
    /\ cliPc = "start"
    /\ cliDb = "none"
    /\ cliExit = 0 - 1
    /\ cliTodo = <<>>
    /\ cliQueries = 0
    /\ cliLate = FALSE
    /\ cliResult = [kind |-> "none", prompt_id |-> 0]

CliOthers == <<cpVars, clVars, exVars, lbVars, emVars, vzVars, bsVars, ctVars, geVars, tfVars, rtVars>>

\* execute_query on the connection.
CliQuery ==
    /\ cliQueries' = cliQueries + 1
    /\ cliLate' = (cliLate \/ cliDb # "open")

CliNoQuery == UNCHANGED <<cliQueries, cliLate>>

\* Leaving the try block of calculate_cp.main with exit code `code`.
CpLeave(how, code) ==
    /\ cliPc' = CpMainLeaveTry(how)
    /\ cliExit' = code

\* db = DatabaseConnector() in its own try (lines 166-170)
CpCliConnect ==
    /\ cliIn.prog = "cp" /\ cliPc = "start"
    /\ \/ /\ cliDb' = "open"
          /\ cliPc' = "cp_dispatch"
          /\ UNCHANGED cliExit
       \/ /\ cliDb' = "none"
          /\ cliPc' = "exited"
          /\ cliExit' = 1
    /\ CliNoQuery
    /\ UNCHANGED <<cliIn, cliTodo, cliResult>>
    /\ UNCHANGED CliOthers

\* if args.prompt_id: ... elif args.baseline: ... else: "[ERROR] Specify
\* --prompt-id or --baseline" on stderr, sys.exit(1)
CpCliDispatch ==
    /\ cliPc = "cp_dispatch"
    /\ IF cliIn.args.prompt_id # 0
       THEN cliPc' = "sp_get_prompts" /\ UNCHANGED <<cliExit, cliResult>>
       ELSE IF cliIn.args.baseline
       THEN cliPc' = "bl_get_prompts" /\ UNCHANGED <<cliExit, cliResult>>
       ELSE /\ CpLeave("sys.exit", 1)
            /\ cliResult' = [kind |-> "usage_error", prompt_id |-> 0]
    /\ CliNoQuery
    /\ UNCHANGED <<cliIn, cliDb, cliTodo>>
    /\ UNCHANGED CliOthers

\* db.get_prompts(limit=1)   (line 175)
SinglePromptLimit == 1

\* prompts = db.get_prompts(limit=1); prompt = next(...); if not prompt:
\* "[ERROR] Prompt <id> not found" on stderr, sys.exit(1)
CpCliSingleGetPrompts ==
    /\ cliPc = "sp_get_prompts"
    /\ CliQuery
    /\ \/ LET prompts == get_prompts(cliIn.store, SinglePromptLimit)
          IN  IF cliIn.args.prompt_id \in Range(prompts)
              THEN cliPc' = "sp_timestamp" /\ UNCHANGED <<cliExit, cliResult>>
              ELSE /\ CpLeave("sys.exit", 1)
                   /\ cliResult' = [kind |-> "not_found",
                                    prompt_id |-> cliIn.args.prompt_id]
       \/ CpLeave("raise", 1) /\ UNCHANGED cliResult
    /\ UNCHANGED <<cliIn, cliDb, cliTodo>>
    /\ UNCHANGED CliOthers

\* get_entries_for_prompt: SELECT timestamp FROM prompts WHERE id = ?
CpCliSingleTimestamp ==
    /\ cliPc = "sp_timestamp"
    /\ CliQuery
    /\ \/ cliPc' = "sp_entries" /\ UNCHANGED cliExit
       \/ CpLeave("raise", 1)
    /\ UNCHANGED <<cliIn, cliDb, cliTodo, cliResult>>
    /\ UNCHANGED CliOthers

\* get_entries_for_prompt: SELECT DISTINCT file_path FROM entries ...;
\* result = calculate_cp(prompt, diff_files)
CpCliSingleEntries ==
    /\ cliPc = "sp_entries"
    /\ CliQuery
    /\ \/ /\ cliPc' = "cp_output"
          /\ cliResult' = [kind |-> "cp_record", prompt_id |-> cliIn.args.prompt_id]
          /\ UNCHANGED cliExit
       \/ CpLeave("raise", 1) /\ UNCHANGED cliResult
    /\ UNCHANGED <<cliIn, cliDb, cliTodo>>
    /\ UNCHANGED CliOthers

\* calculate_baseline_cp: prompts = db.get_prompts(workspace_path, limit)
CpCliBaselineGetPrompts ==
    /\ cliPc = "bl_get_prompts"
    /\ CliQuery
    /\ \/ /\ cliTodo' = get_prompts(cliIn.store, cliIn.args.limit)
          /\ cliPc' = IF cliTodo' = <<>> THEN "bl_aggregate" ELSE "bl_timestamp"
          /\ UNCHANGED cliExit
       \/ CpLeave("raise", 1) /\ UNCHANGED cliTodo
    /\ UNCHANGED <<cliIn, cliDb, cliResult>>
    /\ UNCHANGED CliOthers

\* for prompt in prompts: get_entries_for_prompt, the timestamp query
CpCliBaselineTimestamp ==
    /\ cliPc = "bl_timestamp"
    /\ CliQuery
    /\ \/ cliPc' = "bl_entries" /\ UNCHANGED cliExit
       \/ CpLeave("raise", 1)
    /\ UNCHANGED <<cliIn, cliDb, cliTodo, cliResult>>
    /\ UNCHANGED CliOthers

\* ... the entries query, calculate_cp, and on to the next prompt
CpCliBaselineEntries ==
    /\ cliPc = "bl_entries"
    /\ CliQuery
    /\ \/ /\ cliTodo' = Tail(cliTodo)
          /\ cliPc' = IF cliTodo' = <<>> THEN "bl_aggregate" ELSE "bl_timestamp"
          /\ UNCHANGED cliExit
       \/ CpLeave("raise", 1) /\ UNCHANGED cliTodo
    /\ UNCHANGED <<cliIn, cliDb, cliResult>>
    /\ UNCHANGED CliOthers

\* the statistics of calculate_baseline_cp (lines 112-147)
CpCliBaselineAggregate ==
    /\ cliPc = "bl_aggregate"
    /\ cliResult' = [kind |-> "baseline", prompt_id |-> 0]
    /\ cliPc' = "cp_output"
    /\ CliNoQuery
    /\ UNCHANGED <<cliIn, cliDb, cliExit, cliTodo>>
    /\ UNCHANGED CliOthers

\* json.dumps(result) written to --output or printed (lines 196-203)
CpCliOutput ==
    /\ cliPc = "cp_output"
    /\ \/ CpLeave("ok", 0)
       \/ cliIn.args.output /\ CpLeave("raise", 1)
    /\ CliNoQuery
    /\ UNCHANGED <<cliIn, cliDb, cliTodo, cliResult>>
    /\ UNCHANGED CliOthers

\* finally: db.close()
CpCliFinally ==
    /\ cliPc = "cp_finally"
    /\ cliDb' = close(cliDb)
    /\ cliPc' = "exited"
    /\ CliNoQuery
    /\ UNCHANGED <<cliIn, cliExit, cliTodo, cliResult>>
    /\ UNCHANGED CliOthers

\* Leaving the try block of sequence_processor.main with exit code `code`.
LibLeave(how, code) ==
    /\ cliPc' = LibMainLeaveTry(how)
    /\ cliExit' = code

\* processor = SequenceProcessor(): self.db = DatabaseConnector(), outside
\* the try; a failure ends the process with nothing acquired.
LibCliConnect ==
    /\ cliIn.prog = "library" /\ cliPc = "start"
    /\ \/ /\ cliDb' = "open"
          /\ cliPc' = "lib_vectorizer"
          /\ UNCHANGED cliExit
       \/ /\ cliDb' = "none"
          /\ cliPc' = "exited"
          /\ cliExit' = 1
    /\ CliNoQuery
    /\ UNCHANGED <<cliIn, cliTodo, cliResult>>
    /\ UNCHANGED CliOthers

\* self.vectorizer = EventVectorizer(): the model load is inside its own
\* try / except Exception, so the constructor returns.
LibCliInitVectorizer ==
    /\ cliPc = "lib_vectorizer"
    /\ cliPc' = "lib_extract"
    /\ CliNoQuery
    /\ UNCHANGED <<cliIn, cliDb, cliExit, cliTodo, cliResult>>
    /\ UNCHANGED CliOthers

\* build_behavioral_library: extract_sequences, the one Gateway query; the
\* library is returned at once when no sequence was extracted.
LibCliExtract ==
    /\ cliPc = "lib_extract"
    /\ CliQuery
    /\ \/ cliPc' = "lib_vectorize" /\ UNCHANGED <<cliExit, cliResult>>
       \/ /\ cliPc' = "lib_save"
          /\ cliResult' = [kind |-> "empty_library", prompt_id |-> 0]
          /\ UNCHANGED cliExit
       \/ LibLeave("raise", 1) /\ UNCHANGED cliResult
    /\ UNCHANGED <<cliIn, cliDb, cliTodo>>
    /\ UNCHANGED CliOthers

\* build_behavioral_library: vectorize_sequences
LibCliVectorize ==
    /\ cliPc = "lib_vectorize"
    /\ \/ cliPc' = "lib_cluster" /\ UNCHANGED cliExit
       \/ LibLeave("raise", 1)
    /\ CliNoQuery
    /\ UNCHANGED <<cliIn, cliDb, cliTodo, cliResult>>
    /\ UNCHANGED CliOthers

\* build_behavioral_library: cluster_sequences and the assembly of the library
LibCliCluster ==
    /\ cliPc = "lib_cluster"
    /\ \/ /\ cliPc' = "lib_save"
          /\ cliResult' = [kind |-> "library", prompt_id |-> 0]
          /\ UNCHANGED cliExit
       \/ LibLeave("raise", 1) /\ UNCHANGED cliResult
    /\ CliNoQuery
    /\ UNCHANGED <<cliIn, cliDb, cliTodo>>
    /\ UNCHANGED CliOthers

\* processor.save_library(library, output_path) and the success message
LibCliSave ==
    /\ cliPc = "lib_save"
    /\ \/ LibLeave("ok", 0)
       \/ LibLeave("raise", 1)
    /\ CliNoQuery
    /\ UNCHANGED <<cliIn, cliDb, cliTodo, cliResult>>
    /\ UNCHANGED CliOthers

\* finally: processor.close()
LibCliFinally ==
    /\ cliPc = "lib_finally"
    /\ cliDb' = close(cliDb)
    /\ cliPc' = "exited"
    /\ CliNoQuery
    /\ UNCHANGED <<cliIn, cliExit, cliTodo, cliResult>>
    /\ UNCHANGED CliOthers

CliNext ==
    \/ CpCliConnect
    \/ CpCliDispatch
    \/ CpCliSingleGetPrompts
    \/ CpCliSingleTimestamp
    \/ CpCliSingleEntries
    \/ CpCliBaselineGetPrompts
    \/ CpCliBaselineTimestamp
    \/ CpCliBaselineEntries
    \/ CpCliBaselineAggregate
    \/ CpCliOutput
    \/ CpCliFinally
    \/ LibCliConnect
    \/ LibCliInitVectorizer
    \/ LibCliExtract
    \/ LibCliVectorize
    \/ LibCliCluster
    \/ LibCliSave
    \/ LibCliFinally

(***************************************************************************)
(* Embedding lookup: EventVectorizer.__init__, embed_text and the two       *)
(* remote providers (vectorizer.py)                                        *)
(*                                                                         *)
(* An embedding is a tag; "garbage" is an array that numpy built from a    *)
(* JSON body that is no embedding.                                         *)
(***************************************************************************)
Texts == {"", " ", "fix bug", "add test", "refactor"}

Embeddings == {"e1", "e2"}

Services == {"local", "openrouter", "huggingface"}

\* config.py and the optional imports of vectorizer.py.
EmbedConfigs ==
    [EMBEDDING_SERVICE : Services,
     HAS_LOCAL_EMBEDDINGS : BOOLEAN,
     model_loads : BOOLEAN,
     OPENROUTER_API_KEY : BOOLEAN,
     HF_TOKEN : BOOLEAN,
     HAS_REQUESTS : BOOLEAN]

\* What a provider call can end in: an embedding, an exception (connection
\* error), a timeout, an HTTP error status, a body that is not JSON, a JSON
\* body that is no embedding.
ProviderFailures == {"exception", "timeout", "http_error", "not_json", "not_an_embedding"}

ProviderReplies ==
    {[kind |-> "ok", value |-> e] : e \in Embeddings}
    \cup {[kind |-> k, value |-> NoneV] : k \in ProviderFailures}

LocalReplies ==
    {[kind |-> "ok", value |-> e] : e \in Embeddings}
    \cup {[kind |-> "exception", value |-> NoneV]}

NoReply == [kind |-> "not_called", value |-> NoneV]

\* hash(text): a 64-bit integer, so distinct texts can have the same hash, as
\* "fix bug" and "refactor" have here.
Hash(text) ==
    CASE text = "" -> 0 [] text = " " -> 1 [] text = "fix bug" -> 2
      [] text = "refactor" -> 2 [] OTHER -> 3

HashValues == {Hash(t) : t \in Texts}

\* not text or not text.strip()
IsBlank(text) == text = "" \/ text = " "

\* __init__ (lines 34-40)
LoadsModel(cfg) ==
    cfg.EMBEDDING_SERVICE = "local" /\ cfg.HAS_LOCAL_EMBEDDINGS /\ cfg.model_loads

\* _embed_via_openrouter: requests.post, raise_for_status, response.json(),
\* data['data'][0]['embedding'], all inside try / except Exception.
embed_via_openrouter(reply) ==
    IF reply.kind = "ok" THEN {reply.value} ELSE {NoneV}

\* _embed_via_huggingface: requests.post, raise_for_status and
\* np.array(response.json()) inside try / except Exception.  np.array takes
\* any JSON value (an object, a string, a number) and raises only for a
\* ragged list.
embed_via_huggingface(reply) ==
    IF reply.kind = "ok" THEN {reply.value}
    ELSE IF reply.kind = "not_an_embedding" THEN {"garbage", NoneV}
    ELSE {NoneV}

\* The provider the fallback of lines 82-86 calls, if any.
RemoteProvider(cfg) ==
    IF cfg.EMBEDDING_SERVICE = "openrouter" /\ cfg.OPENROUTER_API_KEY /\ cfg.HAS_REQUESTS
    THEN "openrouter"
    ELSE IF cfg.EMBEDDING_SERVICE = "huggingface" /\ cfg.HF_TOKEN /\ cfg.HAS_REQUESTS
    THEN "huggingface"
    ELSE "none"

\* The local step of embed_text (lines 75-79): the value after it.
LocalEmbedding(model, reply) ==
    IF model /\ reply.kind = "ok" THEN reply.value ELSE NoneV

\* The possible results of the remote step (lines 82-86).
RemoteEmbeddings(cfg, reply) ==
    CASE RemoteProvider(cfg) = "openrouter" -> embed_via_openrouter(reply)
      [] RemoteProvider(cfg) = "huggingface" -> embed_via_huggingface(reply)
      [] OTHER -> {NoneV}

EmNoCall ==
    [text |-> NoneV, result |-> NoneV, raised |-> FALSE, from_cache |-> FALSE,
     local |-> NoReply, remote |-> NoReply, known |-> NoneV]

\* emReturned after a call with `text` that returned `result`: per text, the
\* embedding that the first call to return one for it returned.
Returned(text, result) ==
    IF emReturned[text] = NoneV THEN [emReturned EXCEPT ![text] = result]
    ELSE emReturned

EmIdle ==
    /\ emCfg = [EMBEDDING_SERVICE |-> "openrouter", HAS_LOCAL_EMBEDDINGS |-> FALSE,
                model_loads |-> FALSE, OPENROUTER_API_KEY |-> FALSE,
                HF_TOKEN |-> FALSE, HAS_REQUESTS |-> FALSE]
    /\ emModel = FALSE
    /\ emCache = [h \in HashValues |-> NoneV]
    /\ emLast = [EmNoCall EXCEPT !.text = "<idle>"]
    /\ emReturned = [t \in Texts |-> NoneV]

\* The vectorizer after __init__.
EmInit ==
    /\ emCfg \in EmbedConfigs
    /\ emModel = LoadsModel(emCfg)
    /\ emCache = [h \in HashValues |-> NoneV]
    /\ emLast = EmNoCall
    /\ emReturned = [t \in Texts |-> NoneV]

EmOthers == <<cpVars, clVars, exVars, lbVars, cliVars, vzVars, bsVars, ctVars, geVars, tfVars, rtVars>>

\* embed_text(text): a blank text
EmbedBlank ==
    /\ emLast.text # "<idle>"
    /\ \E text \in Texts :
          /\ IsBlank(text)
          /\ emLast' = [EmNoCall EXCEPT !.text = text]
    /\ UNCHANGED <<emCfg, emModel, emCache, emReturned>>
    /\ UNCHANGED EmOthers

\* embed_text(text): the cache holds the text's key
EmbedCached ==
    /\ emLast.text # "<idle>"
    /\ \E text \in Texts :
          /\ ~IsBlank(text)
          /\ emCache[Hash(text)] # NoneV
          /\ emLast' = [EmNoCall EXCEPT !.text = text,
                                        !.result = emCache[Hash(text)],
                                        !.from_cache = TRUE,
                                        !.known = emReturned[text]]
          /\ emReturned' = Returned(text, emCache[Hash(text)])
    /\ UNCHANGED <<emCfg, emModel, emCache>>
    /\ UNCHANGED EmOthers

\* embed_text(text): the local model, then the configured remote provider
EmbedLookup ==
    /\ emLast.text # "<idle>"
    /\ \E text \in Texts, lr \in LocalReplies, rr \in ProviderReplies :
          /\ ~IsBlank(text)
          /\ emCache[Hash(text)] = NoneV
          /\ LET local == IF emModel THEN lr ELSE NoReply
                 after_local == LocalEmbedding(emModel, local)
                 calls_remote == after_local = NoneV /\ RemoteProvider(emCfg) # "none"
                 remote == IF calls_remote THEN rr ELSE NoReply
             IN  \E embedding \in (IF after_local # NoneV THEN {after_local}
                                   ELSE IF calls_remote THEN RemoteEmbeddings(emCfg, remote)
                                   ELSE {NoneV}) :
                    /\ emCache' = IF embedding # NoneV
                                  THEN [emCache EXCEPT ![Hash(text)] = embedding]
                                  ELSE emCache
                    /\ emLast' = [text |-> text, result |-> embedding, raised |-> FALSE,
                                  from_cache |-> FALSE, local |-> local, remote |-> remote,
                                  known |-> emReturned[text]]
                    /\ emReturned' = Returned(text, embedding)
    /\ UNCHANGED <<emCfg, emModel>>
    /\ UNCHANGED EmOthers

EmNext ==
    \/ EmbedBlank
    \/ EmbedCached
    \/ EmbedLookup

(***************************************************************************)
(* Vectorization: EventVectorizer.build_event_type_encoder,                *)
(* one_hot_encode_event_type, vectorize_event, vectorize_sequence          *)
(* (vectorizer.py) and SequenceProcessor.vectorize_sequences               *)
(*                                                                         *)
(* The encoder event_type_map is the list of its types in slot order (the  *)
(* type of slot i is at position i + 1).  combined_vector is kept as its   *)
(* one-hot part, its semantic part ("zeros" for the placeholder) and its   *)
(* length.                                                                 *)
(***************************************************************************)
MaxVzEvents == 3
SemanticDim == 768

\* Event rows: type, prompt_id and the joined prompt_text (None when the
\* event has no prompt).
VzEventShapes ==
    {[type |-> "view", prompt_id |-> NoneV, prompt_text |-> NoneV],
     [type |-> "edit", prompt_id |-> NoneV, prompt_text |-> NoneV],
     [type |-> "prompt", prompt_id |-> "p1", prompt_text |-> "fix bug"],
     [type |-> NoneV, prompt_id |-> NoneV, prompt_text |-> NoneV],
     [type |-> Missing, prompt_id |-> "p1", prompt_text |-> "fix bug"]}

\* The batches vectorize_sequences is called with: one or two non-empty
\* sequences.
VzBatches ==
    LET sequences == SeqsUpTo(VzEventShapes, MaxVzEvents) \ {<<>>}
    IN  {<<a>> : a \in sequences}
        \cup UNION {{<<a, b>> : b \in {c \in sequences : Len(a) + Len(c) <= MaxVzEvents}} :
                       a \in sequences}

\* The rank of an event type in Python's string order.
TypeRank(t) == CASE t = "edit" -> 1 [] t = "prompt" -> 2 [] t = "view" -> 3 [] OTHER -> 0

\* An encoder that numbers the types in order of first occurrence.
build_event_type_encoder_unsorted(events) ==
    Distinct(SelectSeq([i \in 1..Len(events) |-> events[i].type], Truthy))

\* event_types = {event['type'] for events with a truthy type};
\* {et: idx for idx, et in enumerate(sorted(event_types))}
build_event_type_encoder(events) ==
    LET types == Distinct(SelectSeq([i \in 1..Len(events) |-> events[i].type], Truthy))
        order == StableOrder([i \in 1..Len(types) |-> TypeRank(types[i])])
    IN  [i \in 1..Len(order) |-> types[order[i]]]

\* A one-hot that is empty for a type the encoder does not hold.
one_hot_encode_event_type_or_empty(event_type_map, event_type) ==
    IF \E i \in 1..Len(event_type_map) : event_type_map[i] = event_type
    THEN [i \in 1..Len(event_type_map) |-> IF event_type_map[i] = event_type THEN 1 ELSE 0]
    ELSE <<>>

\* one_hot_encode_event_type: np.array([]) for an empty encoder, else zeros
\* with 1.0 at the slot of the type when the encoder holds it.
one_hot_encode_event_type(event_type_map, event_type) ==
    IF event_type_map = <<>> THEN <<>>
    ELSE [i \in 1..Len(event_type_map) |-> IF event_type_map[i] = event_type THEN 1 ELSE 0]

\* vectorize_event: event.get('type', '') is one-hot encoded; prompt_embedding
\* stays None (lines 140-144), so the semantic part is [0.0] * 768.
vectorize_event(event_type_map, event, prompt_text) ==
    LET event_type_vector ==
            one_hot_encode_event_type(event_type_map,
                IF event.type = Missing THEN "" ELSE event.type)
    IN  [event_type |-> IF event.type = Missing THEN NoneV ELSE event.type,
         event_type_vector |-> event_type_vector,
         prompt_text |-> prompt_text,
         semantic |-> "zeros",
         combined_length |-> Len(event_type_vector) + SemanticDim]

\* prompts_map of vectorize_sequences (lines 60-65): the text of the last
\* event of the batch that has this prompt_id, Missing when there is none.
PromptsMap(batch, prompt_id) ==
    LET all_events == Flatten(batch)
        hits == {i \in 1..Len(all_events) :
                    /\ Truthy(all_events[i].prompt_id)
                    /\ all_events[i].prompt_id = prompt_id
                    /\ all_events[i].prompt_text # Missing}
    IN  IF hits = {} THEN Missing
        ELSE all_events[CHOOSE i \in hits : \A j \in hits : j <= i].prompt_text

\* vectorize_sequence: the prompt text is looked up by the event's prompt_id.
vectorize_sequence(event_type_map, events, batch) ==
    [i \in 1..Len(events) |->
        LET looked_up == PromptsMap(batch, events[i].prompt_id)
            prompt_text == IF Truthy(events[i].prompt_id) /\ looked_up # Missing
                           THEN looked_up ELSE NoneV
        IN  vectorize_event(event_type_map, events[i], prompt_text)]

NoEarlierBatch == [ran |-> FALSE, map |-> <<>>]

VzIdle ==
    /\ vzPc = "off"
    /\ vzEmbeds = FALSE
    /\ vzBatch = <<>>
    /\ vzMap = <<>>
    /\ vzEarlier = NoEarlierBatch
    /\ vzOut = <<>>

\* A new EventVectorizer (lines 28-31).  vzEmbeds: whether embed_text returns
\* an embedding for every non-blank text during this process.
VzInit ==
    /\ vzPc = "idle"
    /\ vzEmbeds \in BOOLEAN
    /\ vzBatch = <<>>
    /\ vzMap = <<>>
    /\ vzEarlier = NoEarlierBatch
    /\ vzOut = <<>>

VzOthers == <<cpVars, clVars, exVars, lbVars, cliVars, emVars, bsVars, ctVars, geVars, tfVars, rtVars>>

\* vectorize_sequences(sequences), lines 56-57: the encoder is built from all
\* events of the batch.  At most one batch follows the first.
VzBuildEncoder ==
    /\ vzPc = "idle" \/ (vzPc = "returned" /\ ~vzEarlier.ran)
    /\ \E batch \in VzBatches :
          /\ vzBatch' = batch
          /\ vzMap' = build_event_type_encoder(Flatten(batch))
    /\ vzEarlier' = IF vzPc = "returned" THEN [ran |-> TRUE, map |-> vzMap]
                    ELSE vzEarlier
    /\ vzOut' = <<>>
    /\ vzPc' = "encoded"
    /\ UNCHANGED vzEmbeds
    /\ UNCHANGED VzOthers

\* vectorize_sequences, lines 69-82: the next sequence of the batch
VzVectorizeSequence ==
    /\ vzPc = "encoded"
    /\ Len(vzOut) < Len(vzBatch)
    /\ vzOut' = Append(vzOut, vectorize_sequence(vzMap, vzBatch[Len(vzOut) + 1], vzBatch))
    /\ UNCHANGED <<vzPc, vzEmbeds, vzBatch, vzMap, vzEarlier>>
    /\ UNCHANGED VzOthers

\* vectorize_sequences, line 84: the list goes to the caller; the encoder
\* stays in the vectorizer.
VzReturn ==
    /\ vzPc = "encoded"
    /\ Len(vzOut) = Len(vzBatch)
    /\ vzPc' = "returned"
    /\ vzBatch' = <<>>
    /\ vzOut' = <<>>
    /\ UNCHANGED <<vzEmbeds, vzMap, vzEarlier>>
    /\ UNCHANGED VzOthers

VzNext ==
    \/ VzBuildEncoder
    \/ VzVectorizeSequence
    \/ VzReturn

(***************************************************************************)
(* Baseline statistics: calculate_baseline_cp, lines 112-147               *)
(* (scripts/calculate_cp.py)                                               *)
(*                                                                         *)
(* cp_scores is the list of the prompts' cp values in prompt order, each   *)
(* an exact fraction within [0,1].                                         *)
(***************************************************************************)
MaxScores == 5

ScoreValues ==
    {Frac(0, 1), Frac(1, 5), Frac(2, 5), Frac(1, 2), Frac(3, 5), Frac(4, 5),
     Frac(1, 1)}

FracLt(x, y) == x.num * y.den < y.num * x.den

\* sorted(cp_scores)
SortedScores(cp_scores) ==
    LET n == Len(cp_scores)
        pos(i) == 1 + Cardinality({j \in 1..n :
                        \/ FracLt(cp_scores[j], cp_scores[i])
                        \/ FracEq(cp_scores[j], cp_scores[i]) /\ j < i})
    IN  [k \in 1..n |-> cp_scores[CHOOSE i \in 1..n : pos(i) = k]]

\* A median without the even-count rule: the upper middle element.
MedianUpperMiddle(cp_scores_sorted) ==
    cp_scores_sorted[(Len(cp_scores_sorted) \div 2) + 1]

\* lines 124-128; the list index n // 2 is position (n \div 2) + 1 here.
Median(cp_scores_sorted) ==
    LET n == Len(cp_scores_sorted)
        upper == cp_scores_sorted[(n \div 2) + 1]
    IN  IF n % 2 = 0 /\ n > 1
        THEN LET lower == cp_scores_sorted[n \div 2]
             IN  Frac(lower.num * upper.den + upper.num * lower.den,
                      2 * lower.den * upper.den)
        ELSE upper

\* Buckets that are all half-open.
InBucketHalfOpen(b, cp) == FracLe(Frac(b - 1, 5), cp) /\ FracLt(cp, Frac(b, 5))

\* Bucket b of lines 131-137: (b-1)/5 <= cp < b/5, the fifth closed at 1.0.
InBucket(b, cp) ==
    /\ FracLe(Frac(b - 1, 5), cp)
    /\ IF b = 5 THEN FracLe(cp, Frac(1, 1)) ELSE FracLt(cp, Frac(b, 5))

\* What calculate_baseline_cp returns for the scores it has collected
\* (average left out).
BaselineStats(cp_scores) ==
    IF cp_scores = <<>>
    THEN [median |-> Frac(0, 1), min |-> Frac(0, 1), max |-> Frac(0, 1), count |-> 0,
          distribution |-> <<>>]
    ELSE LET cp_scores_sorted == SortedScores(cp_scores)
         IN  [median |-> Median(cp_scores_sorted),
              min |-> cp_scores_sorted[1],
              max |-> cp_scores_sorted[Len(cp_scores)],
              count |-> Len(cp_scores),
              distribution |->
                  [b \in 1..5 |-> Cardinality({i \in 1..Len(cp_scores) :
                                                  InBucket(b, cp_scores[i])})]]

BsIdle ==
    /\ bsPhase = "idle"
    /\ bsScores = <<>>
    /\ bsResult = BaselineStats(<<>>)

\* The scores collected by the loop of lines 98-110.
BsInit ==
    /\ bsPhase = "collected"
    /\ bsScores \in SeqsUpTo(ScoreValues, MaxScores)
    /\ bsResult = BaselineStats(<<>>)

\* lines 112-147
BaselineAggregate ==
    /\ bsPhase = "collected"
    /\ bsResult' = BaselineStats(bsScores)
    /\ bsPhase' = "done"
    /\ UNCHANGED bsScores
    /\ UNCHANGED <<cpVars, clVars, exVars, lbVars, cliVars, emVars, vzVars, ctVars, geVars, tfVars, rtVars>>

BsNext == BaselineAggregate

(***************************************************************************)
(* Common event types of one cluster: extract_common_event_types of        *)
(* scripts/cluster_sequences.py, applied to one cluster of a batch whose   *)
(* events have up to seven types and may have none (event_type None, ""    *)
(* or no such key).                                                        *)
(***************************************************************************)
MaxCtSeqs == 3

CtPool ==
    {<<"edit", "prompt", "edit">>,
     <<"prompt", NoneV, "edit">>,
     <<"terminal", "file", "test", "commit", "chat">>,
     <<"", "chat", Missing, "chat">>,
     <<"commit", "terminal">>}

\* A batch and one of the clusters that lines 209-213 make of it: the members
\* with label 0 of some assignment, in index order.
CtInputs ==
    UNION {{[all_sequences |-> ss, cluster_sequences |-> ClusterMembers(labels, 0)] :
                labels \in Labelings(Len(ss), 2)} :
           ss \in SeqsUpTo(CtPool, MaxCtSeqs)}

CtIdle ==
    /\ ctPhase = "idle"
    /\ ctIn = [all_sequences |-> <<>>, cluster_sequences |-> <<>>]
    /\ ctOut = <<>>

CtInit ==
    /\ ctPhase = "input"
    /\ ctIn \in CtInputs
    /\ ctOut = <<>>

\* 'event_types': extract_common_event_types(sequence_indices, all_sequences, ...)
CommonEventTypes ==
    /\ ctPhase = "input"
    /\ ctOut' = extract_common_event_types(ctIn.cluster_sequences, ctIn.all_sequences)
    /\ ctPhase' = "done"
    /\ UNCHANGED ctIn
    /\ UNCHANGED <<cpVars, clVars, exVars, lbVars, cliVars, emVars, vzVars, bsVars, geVars, tfVars, rtVars>>

CtNext == CommonEventTypes

(***************************************************************************)
(* Diff files of a prompt: DatabaseConnector.get_entries_for_prompt and    *)
(* the list the CP scripts make of its rows.                               *)
(*                                                                         *)
(* Timestamps are seconds on one time line; the prompt asked for is "p1".  *)
(* An entry row is its prompt_id (the foreign key, possibly null), its     *)
(* timestamp, its file_path (possibly null) and its before_code and        *)
(* after_code.                                                             *)
(***************************************************************************)
MaxEntries == 2

CP_TIME_WINDOW_SECONDS == 300

PromptTime == 1000

\* 300 s before the prompt, 300 s after it, 301 s after it.
EntryTimes == {700, 1300, 1301}

\* (before_code, after_code): modified, untouched, created.
CodePairs == {<<"x", "y">>, <<"x", "x">>, <<NoneV, "y">>}

EntryRows ==
    [prompt_id : {NoneV, "p1"}, timestamp : EntryTimes,
     file_path : {NoneV, "a.py", "b.py"}, code : CodePairs]

GeInputs == [prompt_found : BOOLEAN, entries : SeqsUpTo(EntryRows, MaxEntries)]

\* before_code != after_code OR before_code IS NULL: a comparison with NULL
\* is not true.
CodeDiffers(e) ==
    \/ e.code[1] # NoneV /\ e.code[2] # NoneV /\ e.code[1] # e.code[2]
    \/ e.code[1] = NoneV

\* timestamp >= window_start AND timestamp <= window_end, with
\* window_start = prompt time - window and window_end = prompt time + window.
InWindow(e, prompt_time, window) ==
    e.timestamp >= prompt_time - window /\ e.timestamp <= prompt_time + window

\* WHERE (prompt_id = ? OR (timestamp >= ? AND timestamp <= ?))
\*   AND file_path IS NOT NULL AND (before_code != after_code OR ...)
EntrySelected(e, prompt_id, prompt_time, window) ==
    /\ e.prompt_id = prompt_id \/ InWindow(e, prompt_time, window)
    /\ e.file_path # NoneV
    /\ CodeDiffers(e)

\* SELECT DISTINCT file_path: the distinct paths of the selected rows.
SelectedPaths(entries, prompt_id, prompt_time, window) ==
    {entries[i].file_path :
        i \in {j \in 1..Len(entries) :
                  EntrySelected(entries[j], prompt_id, prompt_time, window)}}

\* The rows come back in an order the query does not fix.
RowOrders(paths) ==
    {rows \in [1..Cardinality(paths) -> paths] : Range(rows) = paths}

GeIdle ==
    /\ gePhase = "idle"
    /\ geIn = [prompt_found |-> FALSE, entries |-> <<>>]
    /\ geOut = <<>>

GeInit ==
    /\ gePhase = "input"
    /\ geIn \in GeInputs
    /\ geOut = <<>>

\* get_entries_for_prompt("p1", CP_TIME_WINDOW_SECONDS) followed by
\* diff_files = [e.get('file_path') for e in diff_files_data if e.get('file_path')]
GetEntriesForPrompt ==
    /\ gePhase = "input"
    /\ IF ~geIn.prompt_found
       THEN geOut' = <<>>
       ELSE \E rows \in RowOrders(SelectedPaths(geIn.entries, "p1", PromptTime,
                                                  CP_TIME_WINDOW_SECONDS)) :
                geOut' = SelectSeq(rows, Truthy)
    /\ gePhase' = "done"
    /\ UNCHANGED geIn
    /\ UNCHANGED <<cpVars, clVars, exVars, lbVars, cliVars, emVars, vzVars, bsVars, ctVars, tfVars, rtVars>>

GeNext == GetEntriesForPrompt

(***************************************************************************)
(* The temporary input file of SequenceProcessor.cluster_sequences         *)
(*                                                                         *)
(* tfFile is the file named by input_file on disk: "absent" or "present".  *)
(* tfHow tells how the call went: where it raised, or "ok".                *)
(***************************************************************************)
\* An optional int argument: None, or a number.
NoInt == [none |-> TRUE, v |-> 0]

OptInts == {NoInt} \cup {[none |-> FALSE, v |-> n] : n \in 0..2}

TfArgs ==
    [method : {NoneV} \cup Methods, n_clusters : OptInts, min_cluster_size : OptInts]

NoTfArgs == [method |-> NoneV, n_clusters |-> NoInt, min_cluster_size |-> NoInt]

\* A number argument under `x or default`: None and 0 give the default.
NumOr(x, default) == IF x.none \/ x.v = 0 THEN default ELSE x.v

\* lines 94-96 and the command line of lines 116-123
CommandLine(args) ==
    [method |-> PyOr(args.method, DefaultConfig.CLUSTERING_METHOD),
     n_clusters |-> NumOr(args.n_clusters, DefaultConfig.MAX_CLUSTERS),
     min_size |-> NumOr(args.min_cluster_size, DefaultConfig.MIN_CLUSTER_SIZE)]

NoCommandLine == [method |-> "", n_clusters |-> 0, min_size |-> 0]

\* What the body of the try statement (lines 113-129) can come to:
\*   "not_started": subprocess.run could not start python3 (OSError)
\*   "nonzero":     CalledProcessError from check=True, re-raised by line 132
\*   "not_json":    json.loads(result.stdout) raised
\*   "ok":          the parsed result is returned
TryOutcomes == {"not_started", "nonzero", "not_json", "ok"}

TfIdle ==
    /\ tfPc = "idle"
    /\ tfArgs = NoTfArgs
    /\ tfArgv = NoCommandLine
    /\ tfFile = "absent"
    /\ tfHow = "none"

TfInit ==
    /\ tfPc = "start"
    /\ tfArgs \in TfArgs
    /\ tfArgv = NoCommandLine
    /\ tfFile = "absent"
    /\ tfHow = "none"

\* with tempfile.NamedTemporaryFile(mode='w', suffix='.json', delete=False) as f:
\* the file is created, or the call raises and there is no file.
TfCreateTemp ==
    /\ tfPc = "start"
    /\ \/ tfFile' = "present" /\ tfPc' = "opened" /\ tfHow' = tfHow
       \/ tfFile' = "absent" /\ tfPc' = "raised" /\ tfHow' = "create_failed"
    /\ tfArgv' = CommandLine(tfArgs)
    /\ UNCHANGED tfArgs
    /\ UNCHANGED <<cpVars, clVars, exVars, lbVars, cliVars, emVars, vzVars, bsVars, ctVars, geVars, rtVars>>

\* json.dump(sequences_data, f); input_file = f.name, inside the with
\* statement and ahead of the try statement: when json.dump raises (a value
\* that is not serialisable, a full disk) the with statement closes the file,
\* which delete=False keeps, and the exception leaves the call.
TfDump ==
    /\ tfPc = "opened"
    /\ \/ tfPc' = "written" /\ tfHow' = tfHow
       \/ tfPc' = "raised" /\ tfHow' = "dump_failed"
    /\ UNCHANGED <<tfArgs, tfArgv, tfFile>>
    /\ UNCHANGED <<cpVars, clVars, exVars, lbVars, cliVars, emVars, vzVars, bsVars, ctVars, geVars, rtVars>>

\* The body of the try statement and its except clause.
TfRunScript ==
    /\ tfPc = "written"
    /\ \E how \in TryOutcomes : tfHow' = how
    /\ tfPc' = "finally"
    /\ UNCHANGED <<tfArgs, tfArgv, tfFile>>
    /\ UNCHANGED <<cpVars, clVars, exVars, lbVars, cliVars, emVars, vzVars, bsVars, ctVars, geVars, rtVars>>

\* finally: Path(input_file).unlink()
TfFinally ==
    /\ tfPc = "finally"
    /\ tfFile' = "absent"
    /\ tfPc' = IF tfHow = "ok" THEN "returned" ELSE "raised"
    /\ UNCHANGED <<tfArgs, tfArgv, tfHow>>
    /\ UNCHANGED <<cpVars, clVars, exVars, lbVars, cliVars, emVars, vzVars, bsVars, ctVars, geVars, rtVars>>

TfNext ==
    \/ TfCreateTemp
    \/ TfDump
    \/ TfRunScript
    \/ TfFinally

(***************************************************************************)
(* RealTimeClient: src/sdk/python/cursor_telemetry/realtime.py             *)
(*                                                                         *)
(* The client's coroutines run on one asyncio event loop: a coroutine runs *)
(* without interruption from one await to the next, and at an await any    *)
(* other task may run.  Each action is one such stretch.                   *)
(*                                                                         *)
(* A websocket is its number in order of opening; rtSockets gives each its *)
(* state ("unopened", "open", "lost": closed abnormally, "closed": closed  *)
(* with a close frame).  rtWebsocket is self.websocket, 0 for None.        *)
(* rtTasks[s] is the task that connect() created to listen on socket s:    *)
(*   "none", "listening" (in the async for), "sleeping" (in                *)
(*   _attempt_reconnect, at asyncio.sleep), "connecting" (in connect(), at *)
(*   websockets.connect), "done".                                          *)
(* rtUser is the application's own coroutine, which awaits connect() and   *)
(* later disconnect().  rtDisconnected says disconnect() has returned and  *)
(* rtLate that a websocket was opened after that.  The heartbeat task      *)
(* writes last_heartbeat only and is left out.                             *)
(***************************************************************************)
MaxSockets == 4

max_reconnect_attempts == 5

reconnect_delay == 1

SocketIds == 1..MaxSockets

RECURSIVE Pow2(_)
Pow2(n) == IF n = 0 THEN 1 ELSE 2 * Pow2(n - 1)

\* The number websockets.connect gives a new socket, 0 when the model has
\* no socket left to open.
NextSocket ==
    LET opened == Cardinality({s \in SocketIds : rtSockets[s] # "unopened"})
    IN  IF opened < MaxSockets THEN opened + 1 ELSE 0

RtIdle ==
    /\ rtUser = "idle"
    /\ rtConnected = FALSE
    /\ rtWebsocket = 0
    /\ rtStop = FALSE
    /\ rtAttempts = 0
    /\ rtDelay = 0
    /\ rtSockets = [s \in SocketIds |-> "unopened"]
    /\ rtTasks = [s \in SocketIds |-> "none"]
    /\ rtClosing = 0
    /\ rtDisconnected = FALSE
    /\ rtLate = FALSE

\* __init__ (lines 28-42)
RtInit ==
    /\ rtUser = "init"
    /\ rtConnected = FALSE
    /\ rtWebsocket = 0
    /\ rtStop = FALSE
    /\ rtAttempts = 0
    /\ rtDelay = 0
    /\ rtSockets = [s \in SocketIds |-> "unopened"]
    /\ rtTasks = [s \in SocketIds |-> "none"]
    /\ rtClosing = 0
    /\ rtDisconnected = FALSE
    /\ rtLate = FALSE

RtOthers ==
    <<cpVars, clVars, exVars, lbVars, cliVars, emVars, vzVars, bsVars, ctVars, geVars, tfVars>>

\* connect() from the return of websockets.connect on (lines 51-73), run by
\* the task `caller` (0: the application).  websockets.connect returned a new
\* socket or raised.
ConnectReturns(caller, ok) ==
    IF ok
    THEN /\ NextSocket # 0
         /\ rtSockets' = [rtSockets EXCEPT ![NextSocket] = "open"]
         /\ rtWebsocket' = NextSocket
         /\ rtConnected' = TRUE
         /\ rtAttempts' = 0
         /\ rtTasks' = [s \in SocketIds |->
                           IF s = NextSocket THEN "listening"
                           ELSE IF s = caller THEN "done" ELSE rtTasks[s]]
         /\ rtLate' = (rtLate \/ rtDisconnected)
    ELSE /\ rtTasks' = [s \in SocketIds |-> IF s = caller THEN "done" ELSE rtTasks[s]]
         /\ UNCHANGED <<rtSockets, rtWebsocket, rtConnected, rtAttempts, rtLate>>

\* The application calls connect(), for the first time or again: lines
\* 46-56 up to the await.
RtConnect ==
    /\ rtUser \in {"init", "ready"}
    /\ rtUser' = "connecting"
    /\ UNCHANGED <<rtConnected, rtWebsocket, rtStop, rtAttempts, rtDelay, rtSockets, rtTasks,
                   rtClosing, rtDisconnected, rtLate>>
    /\ UNCHANGED RtOthers

RtConnectReturns ==
    /\ rtUser = "connecting"
    /\ \E ok \in BOOLEAN : ConnectReturns(0, ok)
    /\ rtUser' = "ready"
    /\ UNCHANGED <<rtStop, rtDelay, rtClosing, rtDisconnected>>
    /\ UNCHANGED RtOthers

\* The application calls disconnect(): lines 77-81 up to the await of
\* websocket.close(), or to the end when self.websocket is None.
RtDisconnect ==
    /\ rtUser = "ready"
    /\ rtConnected' = FALSE
    /\ rtStop' = TRUE
    /\ IF rtWebsocket # 0
       THEN rtUser' = "closing" /\ rtClosing' = rtWebsocket /\ UNCHANGED rtDisconnected
       ELSE rtUser' = "done" /\ rtDisconnected' = TRUE /\ UNCHANGED rtClosing
    /\ UNCHANGED <<rtWebsocket, rtAttempts, rtDelay, rtSockets, rtTasks, rtLate>>
    /\ UNCHANGED RtOthers

\* websocket.close() returns: the socket is closed; self.websocket = None
\* (lines 81-84).
RtDisconnectReturns ==
    /\ rtUser = "closing"
    /\ rtSockets' = [rtSockets EXCEPT ![rtClosing] = IF @ = "open" THEN "closed" ELSE @]
    /\ rtWebsocket' = 0
    /\ rtUser' = "done"
    /\ rtDisconnected' = TRUE
    /\ UNCHANGED <<rtConnected, rtStop, rtAttempts, rtDelay, rtTasks, rtClosing, rtLate>>
    /\ UNCHANGED RtOthers

\* The network or the server ends the connection of an open socket:
\* abnormally ("lost") or with a close frame ("closed").
RtConnectionEnds(s) ==
    /\ rtSockets[s] = "open"
    /\ \E how \in {"lost", "closed"} : rtSockets' = [rtSockets EXCEPT ![s] = how]
    /\ UNCHANGED <<rtUser, rtConnected, rtWebsocket, rtStop, rtAttempts, rtDelay, rtTasks,
                   rtClosing, rtDisconnected, rtLate>>
    /\ UNCHANGED RtOthers

\* _listen_for_messages receives a message (lines 89-99): it leaves the
\* loop when the stop event is set, else handles the message.
RtMessage(s) ==
    /\ rtTasks[s] = "listening"
    /\ rtSockets[s] = "open"
    /\ rtTasks' = [rtTasks EXCEPT ![s] = IF rtStop THEN "done" ELSE @]
    /\ UNCHANGED <<rtUser, rtConnected, rtWebsocket, rtStop, rtAttempts, rtDelay, rtSockets,
                   rtClosing, rtDisconnected, rtLate>>
    /\ UNCHANGED RtOthers

\* The async for of _listen_for_messages ends: normally after a close frame
\* (the coroutine returns), with ConnectionClosed after an abnormal end
\* (lines 101-104), and then _attempt_reconnect up to its asyncio.sleep
\* (lines 164-172).
RtListenEnds(s) ==
    /\ rtTasks[s] = "listening"
    /\ rtSockets[s] \in {"lost", "closed"}
    /\ IF rtSockets[s] = "closed" \/ rtStop
       THEN /\ rtTasks' = [rtTasks EXCEPT ![s] = "done"]
            /\ UNCHANGED <<rtAttempts, rtDelay>>
       ELSE IF rtAttempts >= max_reconnect_attempts
       THEN /\ rtTasks' = [rtTasks EXCEPT ![s] = "done"]
            /\ UNCHANGED <<rtAttempts, rtDelay>>
       ELSE /\ rtAttempts' = rtAttempts + 1
            /\ rtDelay' = reconnect_delay * Pow2(rtAttempts' - 1)
            /\ rtTasks' = [rtTasks EXCEPT ![s] = "sleeping"]
    /\ UNCHANGED <<rtUser, rtConnected, rtWebsocket, rtStop, rtSockets, rtClosing,
                   rtDisconnected, rtLate>>
    /\ UNCHANGED RtOthers

\* asyncio.sleep(delay) is over: if not self._stop_event.is_set(): await
\* self.connect(), up to the await of websockets.connect (lines 174-175,
\* 46-56).
RtReconnectWakes(s) ==
    /\ rtTasks[s] = "sleeping"
    /\ rtTasks' = [rtTasks EXCEPT ![s] = IF rtStop THEN "done" ELSE "connecting"]
    /\ UNCHANGED <<rtUser, rtConnected, rtWebsocket, rtStop, rtAttempts, rtDelay, rtSockets,
                   rtClosing, rtDisconnected, rtLate>>
    /\ UNCHANGED RtOthers

\* websockets.connect returns inside the reconnect's connect(); the task
\* ends whatever connect() returns.
RtReconnectReturns(s) ==
    /\ rtTasks[s] = "connecting"
    /\ \E ok \in BOOLEAN : ConnectReturns(s, ok)
    /\ UNCHANGED <<rtUser, rtStop, rtDelay, rtClosing, rtDisconnected>>
    /\ UNCHANGED RtOthers

\* The steps the event loop and the network are bound to take: a task that
\* can run does, and an awaited call returns.
RtTaskStep ==
    \/ RtConnectReturns
    \/ RtDisconnectReturns
    \/ \E s \in SocketIds : RtListenEnds(s)
    \/ \E s \in SocketIds : RtReconnectWakes(s)
    \/ \E s \in SocketIds : RtReconnectReturns(s)

RtNext ==
    \/ RtConnect
    \/ RtDisconnect
    \/ \E s \in SocketIds : RtConnectionEnds(s)
    \/ \E s \in SocketIds : RtMessage(s)
    \/ RtTaskStep

(***************************************************************************)
(* Specifications: one per component, the others idle                      *)
(***************************************************************************)
InitCP == CpInit /\ ClIdle /\ ExIdle /\ LbIdle /\ CliIdle /\ EmIdle /\ VzIdle /\ BsIdle /\ CtIdle /\ GeIdle /\ TfIdle /\ RtIdle

SpecCP == InitCP /\ [][CpNext]_vars

InitCluster == ClInit /\ CpIdle /\ ExIdle /\ LbIdle /\ CliIdle /\ EmIdle /\ VzIdle /\ BsIdle /\ CtIdle /\ GeIdle /\ TfIdle /\ RtIdle

SpecCluster == InitCluster /\ [][ClNext]_vars

InitExtract == ExInit /\ CpIdle /\ ClIdle /\ LbIdle /\ CliIdle /\ EmIdle /\ VzIdle /\ BsIdle /\ CtIdle /\ GeIdle /\ TfIdle /\ RtIdle

SpecExtract == InitExtract /\ [][ExNext]_vars

InitLibrary == LbInit /\ CpIdle /\ ClIdle /\ ExIdle /\ CliIdle /\ EmIdle /\ VzIdle /\ BsIdle /\ CtIdle /\ GeIdle /\ TfIdle /\ RtIdle

SpecLibrary == InitLibrary /\ [][LbNext]_vars

InitCli == CliInit /\ CpIdle /\ ClIdle /\ ExIdle /\ LbIdle /\ EmIdle /\ VzIdle /\ BsIdle /\ CtIdle /\ GeIdle /\ TfIdle /\ RtIdle

SpecCli == InitCli /\ [][CliNext]_vars

InitEmbed == EmInit /\ CpIdle /\ ClIdle /\ ExIdle /\ LbIdle /\ CliIdle /\ VzIdle /\ BsIdle /\ CtIdle /\ GeIdle /\ TfIdle /\ RtIdle

SpecEmbed == InitEmbed /\ [][EmNext]_vars

InitVectorize == VzInit /\ CpIdle /\ ClIdle /\ ExIdle /\ LbIdle /\ CliIdle /\ EmIdle /\ BsIdle /\ CtIdle /\ GeIdle /\ TfIdle /\ RtIdle

SpecVectorize == InitVectorize /\ [][VzNext]_vars

InitBaseline ==
    BsInit /\ CpIdle /\ ClIdle /\ ExIdle /\ LbIdle /\ CliIdle /\ EmIdle /\ VzIdle /\ CtIdle /\ GeIdle /\ TfIdle /\ RtIdle

SpecBaseline == InitBaseline /\ [][BsNext]_vars

InitCommonTypes ==
    CtInit /\ CpIdle /\ ClIdle /\ ExIdle /\ LbIdle /\ CliIdle /\ EmIdle /\ VzIdle /\ BsIdle /\ GeIdle /\ TfIdle /\ RtIdle

SpecCommonTypes == InitCommonTypes /\ [][CtNext]_vars

InitEntries ==
    GeInit /\ CpIdle /\ ClIdle /\ ExIdle /\ LbIdle /\ CliIdle /\ EmIdle /\ VzIdle /\ BsIdle /\ CtIdle /\ TfIdle /\ RtIdle

SpecEntries == InitEntries /\ [][GeNext]_vars

InitTempFile ==
    TfInit /\ CpIdle /\ ClIdle /\ ExIdle /\ LbIdle /\ CliIdle /\ EmIdle /\ VzIdle /\ BsIdle /\ CtIdle /\ GeIdle /\ RtIdle

SpecTempFile == InitTempFile /\ [][TfNext]_vars

InitRealtime ==
    RtInit /\ CpIdle /\ ClIdle /\ ExIdle /\ LbIdle /\ CliIdle /\ EmIdle /\ VzIdle /\ BsIdle /\ CtIdle /\ GeIdle /\ TfIdle

SpecRealtime == InitRealtime /\ [][RtNext]_vars

SpecRealtimeLive == InitRealtime /\ [][RtNext]_vars /\ WF_vars(RtTaskStep)

(***************************************************************************)
(* Claims                                                                  *)
(***************************************************************************)
\* C1: for every context list C and diff list D (repeated paths included),
\* cp = 0.0 when C is empty and otherwise cp = |C n D| / |C| with C and D
\* taken as sets of paths; cp lies within [0,1].
C1_CpIsSetRatio ==
    cpPhase = "done" =>
        LET C == Range(extract_context_files(cpPrompt))
            D == Range(cpDiff)
        IN  /\ C = {} => FracEq(cpResult.cp, Frac(0, 1))
            /\ C # {} => FracEq(cpResult.cp, Frac(Cardinality(C \cap D), Cardinality(C)))
            /\ FracLe(Frac(0, 1), cpResult.cp)
            /\ FracLe(cpResult.cp, Frac(1, 1))

C14_PathsKeptInOrder ==
    (cpPhase = "done"
        /\ cpPrompt.form # "absent"
        /\ cpPrompt.shape \in ListShapes
        /\ (cpPrompt.shape \in {"attachedFiles", "codebaseFiles"}
               => \A i \in 1..Len(cpPrompt.entries) : cpPrompt.entries[i].t # "str"))
    => LET paths == [i \in 1..Len(cpPrompt.entries) |->
                        PyOr(cpPrompt.entries[i].path, cpPrompt.entries[i].fileName)]
       IN  cpResult.context_files = SelectSeq(paths, Truthy)

\* C15: for a non-empty context list, intersection holds exactly the context
\* files that occur in diff_files and unused_context_files exactly those that
\* do not, both in context order; the two lists are disjoint, together they
\* hold every entry of context_files, and intersection_count +
\* |unused_context_files| = context_file_count.
C15_IntersectionAndUnusedPartitionContext ==
    (cpPhase = "done" /\ cpResult.context_files # <<>>)
    => LET ctx == cpResult.context_files
           inter == cpResult.intersection
           unused == cpResult.unused_context_files
           Changed(f) == \E j \in 1..Len(cpDiff) : cpDiff[j] = f
       IN  /\ inter = SelectSeq(ctx, Changed)
           /\ unused = SelectSeq(ctx, LAMBDA f : ~Changed(f))
           /\ \A i \in 1..Len(inter), j \in 1..Len(unused) : inter[i] # unused[j]
           /\ \A i \in 1..Len(ctx) :
                 \/ \E j \in 1..Len(inter) : inter[j] = ctx[i]
                 \/ \E j \in 1..Len(unused) : unused[j] = ctx[i]
           /\ cpResult.intersection_count = Len(inter)
           /\ cpResult.context_file_count = Len(ctx)
           /\ cpResult.intersection_count + Len(unused) = cpResult.context_file_count

\* Witness of C15: context a.py, b.py under attachedFiles and diff a.py, c.py
\* give intersection [a.py], unused [b.py] and cp 0.5.
C15_Witness ==
    /\ cpPhase = "done"
    /\ cpPrompt.shape = "attachedFiles"
    /\ cpResult.context_files = <<"a.py", "b.py">>
    /\ cpDiff = <<"a.py", "c.py">>
    /\ cpResult.intersection = <<"a.py">>
    /\ cpResult.unused_context_files = <<"b.py">>
    /\ FracEq(cpResult.cp, Frac(1, 2))


ClEmitted == clPhase = "done" /\ clOut.status = "ok"

ClLabelsUsed == Range(clOut.cluster_assignments)

ClGroup(c) == {i \in 0..(Len(clOut.cluster_assignments) - 1) :
                  clOut.cluster_assignments[i + 1] = c}

\* C2: the emitted Cluster records are exactly the label groups with at least
\* min_size members: each emitted Cluster has frequency = number of its
\* sequence_indices >= min_size and holds exactly the indices of its label, a
\* smaller group has no Cluster record (its sequences keep their label in
\* cluster_assignments), and no index is in two emitted clusters.
C2_ClustersAreTheLargeGroups ==
    ClEmitted =>
        LET lib == clOut.behavioral_library
        IN  /\ \A i \in 1..Len(lib) :
                  /\ lib[i].frequency = Len(lib[i].sequence_indices)
                  /\ lib[i].frequency >= clOut.min_size
                  /\ Range(lib[i].sequence_indices) = ClGroup(lib[i].cluster_id)
                  /\ Cardinality(Range(lib[i].sequence_indices)) = lib[i].frequency
            /\ \A c \in ClLabelsUsed :
                  Cardinality({i \in 1..Len(lib) : lib[i].cluster_id = c})
                      = IF Cardinality(ClGroup(c)) >= clOut.min_size THEN 1 ELSE 0
            /\ \A i, j \in 1..Len(lib) :
                  i # j => Range(lib[i].sequence_indices)
                               \cap Range(lib[j].sequence_indices) = {}
            /\ clOut.clusters_found = Len(lib)
            /\ Len(clOut.cluster_assignments) = clOut.total_sequences

\* Witness of C2: a run that emitted a Cluster and dropped a smaller group.
C2_Witness ==
    /\ ClEmitted
    /\ clOut.clusters_found >= 1
    /\ \E c \in ClLabelsUsed : Cardinality(ClGroup(c)) < clOut.min_size

C3_TooManyClustersIsAnError ==
    (clPhase = "done" /\ clIn.n_clusters > Len(clIn.seqs)) =>
        (clOut.status = "error" /\ clOut.exit_code = 1)

\* C4: when the batch holds fewer than 2 distinct sequences (empty, a single
\* sequence, or several identical ones), clustering fails with an error for
\* every requested cluster count, n_clusters = 1 included, and returns no
\* cluster assignments.
C4_FewDistinctSequencesIsAnError ==
    (clPhase = "done" /\ Cardinality(Range(clIn.seqs)) < 2) =>
        (clOut.status = "error" /\ clOut.exit_code = 1)


ExReturned == Len(exOut) >= 1 /\ exOut[1].status = "ok"

ExIds(seq) == {seq[i].id : i \in 1..Len(seq)}

ExSessionIds(session) == {i \in 1..Len(exGw) : SessionOf(exGw[i]) = session}

ExSessions == {SessionOf(exGw[i]) : i \in 1..Len(exGw)}

\* C5: every sequence a call returns has min <= length <= max (bounds
\* inclusive), and every session group whose event count lies within the
\* bounds is in the returned list, whole: a returned sequence holds exactly the
\* events of one session, never a part of them.
C5_SequencesAreTheGroupsWithinBounds ==
    ExReturned =>
        LET seqs == exOut[1].sequences
        IN  /\ \A i \in 1..Len(seqs) :
                  /\ exMin <= Len(seqs[i]) /\ Len(seqs[i]) <= exMax
                  /\ \E s \in ExSessions : ExIds(seqs[i]) = ExSessionIds(s)
                  /\ Cardinality(ExIds(seqs[i])) = Len(seqs[i])
            /\ \A s \in ExSessions :
                  (exMin <= Cardinality(ExSessionIds(s))
                       /\ Cardinality(ExSessionIds(s)) <= exMax)
                  => \E i \in 1..Len(seqs) : ExIds(seqs[i]) = ExSessionIds(s)

\* Witness of C5: a call that kept one group at a bound and discarded another.
C5_Witness ==
    /\ ExReturned
    /\ \E i \in 1..Len(exOut[1].sequences) :
           Len(exOut[1].sequences[i]) = exMin \/ Len(exOut[1].sequences[i]) = exMax
    /\ \E s \in ExSessions :
           \A i \in 1..Len(exOut[1].sequences) :
               ExIds(exOut[1].sequences[i]) # ExSessionIds(s)

\* C6: the returned sequences group the Gateway's events by session id (the
\* events without one all in the sentinel session), each sequence is in
\* ascending timestamp order with equal timestamps in retrieval order, no
\* event is in two sequences, the sequences come in the order in which their
\* sessions first occur, and a second call on the same Gateway output returns
\* the same sequences in the same order.
C6_GroupedSortedStableIdempotent ==
    ExReturned =>
        LET seqs == exOut[1].sequences
        IN  /\ \A i \in 1..Len(seqs) :
                  /\ \A a, b \in 1..Len(seqs[i]) :
                        SessionOf(seqs[i][a]) = SessionOf(seqs[i][b])
                  /\ \A a, b \in 1..Len(seqs[i]) :
                        a < b =>
                          \/ KeyRank(SortKey(seqs[i][a])) < KeyRank(SortKey(seqs[i][b]))
                          \/ /\ KeyRank(SortKey(seqs[i][a])) = KeyRank(SortKey(seqs[i][b]))
                             /\ seqs[i][a].id < seqs[i][b].id
                  /\ \A a \in 1..Len(seqs[i]) : exGw[seqs[i][a].id] = seqs[i][a]
            /\ \A i, j \in 1..Len(seqs) :
                  i # j => /\ ExIds(seqs[i]) \cap ExIds(seqs[j]) = {}
                           /\ SessionOf(seqs[i][1]) # SessionOf(seqs[j][1])
            /\ \A i, j \in 1..Len(seqs) :
                  i < j =>
                    \E a \in ExIds(seqs[i]) : \A b \in ExIds(seqs[j]) : a < b
            /\ \A i \in 1..Len(exGw) :
                  exGw[i].session_id = NoneV => SessionOf(exGw[i]) = "default"
            /\ Len(exOut) = 2 => exOut[2] = exOut[1]

\* Witness of C6: two calls were made, and the first returned a sequence whose
\* events were not in timestamp order in the Gateway output and one with two
\* events of equal timestamp.
C6_Witness ==
    /\ Len(exOut) = 2
    /\ ExReturned
    /\ \E i \in 1..Len(exOut[1].sequences) :
           \E a, b \in 1..Len(exOut[1].sequences[i]) :
               a < b /\ exOut[1].sequences[i][a].id > exOut[1].sequences[i][b].id
    /\ \E i \in 1..Len(exOut[1].sequences) :
           \E a, b \in 1..Len(exOut[1].sequences[i]) :
               a < b /\ SortKey(exOut[1].sequences[i][a]) = SortKey(exOut[1].sequences[i][b])

ExLacksTimestamp(e) == e.timestamp = Missing \/ e.timestamp = NoneV

\* C7: a call does not fail when events have a missing or null timestamp:
\* those events come before every event of their session that has a
\* timestamp, and the sessions are still extracted.
C7_NullTimestampsTolerated ==
    Len(exOut) >= 1 =>
        /\ exOut[1].status = "ok"
        /\ \A i \in 1..Len(exOut[1].sequences) :
              \A a, b \in 1..Len(exOut[1].sequences[i]) :
                  (ExLacksTimestamp(exOut[1].sequences[i][a])
                       /\ ~ExLacksTimestamp(exOut[1].sequences[i][b]))
                  => a < b


\* C8: when zero sequences are extracted, build_behavioral_library returns
\* without raising and without calling vectorization or clustering, and what
\* it returns has the fields of a library (workspace_path, total_sequences,
\* clusters_found, behavioral_library, clustering_metadata) with
\* clusters_found = 0 and an empty behavioral_library.
C8_EmptyLibraryIsWellFormed ==
    (lbPc \in {"returned", "raised"} /\ lbSeqs = <<>>
         /\ extract_sequences(lbIn.gw, DefaultMinLen, DefaultMaxLen).status = "ok")
    => /\ lbPc = "returned"
       /\ lbCalls = <<"extract">>
       /\ lbResult.keys = LibraryKeys
       /\ lbResult.clusters_found = 0
       /\ lbResult.behavioral_library = <<>>


\* C18: in single-prompt mode the 'Prompt <id> not found' error (exit code 1)
\* is produced only when no prompt with that id exists in the store, a CP
\* record that is produced is that of the requested prompt, and a run with
\* neither a prompt id nor the baseline flag ends with a stderr message and
\* exit code 1.
C18_NotFoundOnlyForAbsentPrompt ==
    (cliIn.prog = "cp" /\ cliPc = "exited") =>
        /\ cliResult.kind = "not_found" =>
               (cliExit = 1 /\ cliIn.args.prompt_id \notin Range(cliIn.store))
        /\ cliResult.kind = "cp_record" =>
               (cliResult.prompt_id = cliIn.args.prompt_id
                    /\ cliIn.args.prompt_id \in Range(cliIn.store))
        /\ (cliDb # "none" /\ cliIn.args.prompt_id = 0 /\ ~cliIn.args.baseline) =>
               (cliResult.kind = "usage_error" /\ cliExit = 1)

\* C9: in both entry points, once the Gateway connection has been acquired it
\* is closed before the process ends, on every exit path (normal completion,
\* an exception in any stage, the exit-code-1 paths), and no query is issued
\* on a connection that is not open.
C9_ConnectionClosedOnEveryExit ==
    /\ cliPc = "exited" => cliDb \in {"none", "closed"}
    /\ (cliPc = "exited" /\ cliDb = "none") => (cliQueries = 0 /\ cliExit = 1)
    /\ cliDb = "closed" => cliPc = "exited"
    /\ ~cliLate

\* Witness of C9: the library builder ended with exit code 1 after a stage
\* raised, with the connection it had queried closed.
C9_Witness ==
    /\ cliIn.prog = "library"
    /\ cliPc = "exited"
    /\ cliExit = 1
    /\ cliQueries >= 1
    /\ cliDb = "closed"


EmFailed(reply) == reply.kind \in ProviderFailures

\* C10: embed_text never raises to its caller, and whenever the local backend
\* or a remote provider failed during the call (exception, timeout, HTTP
\* error status, malformed response body), the call's result after any
\* fallback is no embedding.
C10_ProviderFailureGivesNoEmbedding ==
    /\ ~emLast.raised
    /\ (EmFailed(emLast.remote)
            \/ (EmFailed(emLast.local) /\ emLast.remote.kind # "ok"))
       => emLast.result = NoneV


VzBatchTypes == {e.type : e \in Range(Flatten(vzBatch))} \ {NoneV, Missing, ""}

VzOutEvents == Range(Flatten(vzOut))

\* C11: within one vectorize_sequences run every produced vector has the
\* length (number of distinct event types of the batch) + 768; its
\* categorical part is all zeros when the event's type is missing or null (or
\* otherwise not in the encoder) and else holds exactly one 1.0, at the slot
\* of the event's type.
C11_VectorsHaveOneLengthAndOneHot ==
    vzPc = "encoded" =>
        \A v \in VzOutEvents :
            /\ v.combined_length = Cardinality(VzBatchTypes) + SemanticDim
            /\ Len(v.event_type_vector) = Cardinality(VzBatchTypes)
            /\ IF v.event_type \in VzBatchTypes
               THEN \A i \in 1..Len(v.event_type_vector) :
                       v.event_type_vector[i] =
                           IF i = 1 + Cardinality({t \in VzBatchTypes :
                                                      TypeRank(t) < TypeRank(v.event_type)})
                           THEN 1 ELSE 0
               ELSE \A i \in 1..Len(v.event_type_vector) : v.event_type_vector[i] = 0

\* Witness of C11: a vectorized batch of two event types in which one event
\* has a null type and one has no type key.
C11_Witness ==
    /\ vzPc = "encoded"
    /\ Len(vzOut) = Len(vzBatch)
    /\ Cardinality(VzBatchTypes) = 2
    /\ \E v \in VzOutEvents : v.event_type = NoneV /\ v.event_type_vector = <<0, 0>>
    /\ \E v \in VzOutEvents : v.event_type_vector = <<0, 1>>

\* C19: once vectorize_sequences has built the encoder for a batch, and
\* while it vectorizes the batch, the encoder holds exactly the distinct event
\* types of that batch at the slots 0..n-1 in ascending string order,
\* whatever the order of the events and whatever an earlier batch left.
C19_EncoderIsRebuiltPerBatch ==
    vzPc = "encoded" =>
        /\ Range(vzMap) = VzBatchTypes
        /\ Len(vzMap) = Cardinality(VzBatchTypes)
        /\ \A i, j \in 1..Len(vzMap) : i < j => TypeRank(vzMap[i]) < TypeRank(vzMap[j])

\* Witness of C19: after a batch with the types edit, prompt, view, a batch
\* in which view comes before edit is being vectorized.
C19_Witness ==
    /\ vzPc = "encoded"
    /\ vzEarlier.ran
    /\ vzEarlier.map = <<"edit", "prompt", "view">>
    /\ vzMap = <<"edit", "view">>
    /\ vzBatch[1][1].type = "view"
    /\ vzOut # <<>>

\* C20: an event whose prompt has non-empty text, vectorized while the
\* embedding backend returns embeddings, has that embedding as its semantic
\* part; the all-zero placeholder appears only for an event without prompt
\* text or when no backend returned an embedding.
C20_SemanticPartIsThePromptEmbedding ==
    vzPc = "encoded" =>
        \A v \in VzOutEvents :
            (Truthy(v.prompt_text) /\ vzEmbeds) => v.semantic # "zeros"


\* C16: for n >= 1 aggregated scores, median is the middle element of the
\* sorted scores when n is odd and the mean of the two middle elements when n
\* is even, and min <= median <= max.
C16_MedianIsTheMidpoint ==
    (bsPhase = "done" /\ bsScores # <<>>) =>
        LET n == Len(bsScores)
            Below(x) == Cardinality({i \in 1..n : FracLt(bsScores[i], x)})
            AtMost(x) == Cardinality({i \in 1..n : FracLe(bsScores[i], x)})
            \* x is the k-th smallest score
            IsKth(x, k) == Below(x) < k /\ k <= AtMost(x)
        IN  /\ n % 2 = 1 =>
                  /\ \E i \in 1..n : FracEq(bsScores[i], bsResult.median)
                  /\ IsKth(bsResult.median, (n + 1) \div 2)
            /\ n % 2 = 0 =>
                  \E i, j \in 1..n :
                      /\ IsKth(bsScores[i], n \div 2)
                      /\ IsKth(bsScores[j], (n \div 2) + 1)
                      /\ FracEq(bsResult.median,
                                Frac(bsScores[i].num * bsScores[j].den
                                         + bsScores[j].num * bsScores[i].den,
                                     2 * bsScores[i].den * bsScores[j].den))
            /\ FracLe(bsResult.min, bsResult.median)
            /\ FracLe(bsResult.median, bsResult.max)
            /\ \A i \in 1..n : FracLe(bsResult.min, bsScores[i])
                                  /\ FracLe(bsScores[i], bsResult.max)

\* Witness of C16: the scores 0.0, 0.2, 0.4, 0.6, 1.0, given out of order,
\* have median 0.4.
C16_Witness ==
    /\ bsPhase = "done"
    /\ bsScores = <<Frac(3, 5), Frac(0, 1), Frac(1, 1), Frac(1, 5), Frac(2, 5)>>
    /\ bsResult.median = Frac(2, 5)

\* C17: every aggregated score is counted in exactly one of the five buckets
\* [0,0.2), [0.2,0.4), [0.4,0.6), [0.6,0.8), [0.8,1.0]: a score on an inner
\* boundary in the bucket that starts there, 1.0 in the last; the bucket
\* counts sum to the number of prompts.
C17_BucketsPartitionTheScores ==
    (bsPhase = "done" /\ bsScores # <<>>) =>
        LET n == Len(bsScores)
            d == bsResult.distribution
            Home(cp) == IF FracEq(cp, Frac(1, 1)) THEN 5
                        ELSE 1 + ((5 * cp.num) \div cp.den)
        IN  /\ Len(d) = 5
            /\ \A b \in 1..5 : d[b] = Cardinality({i \in 1..n : Home(bsScores[i]) = b})
            /\ d[1] + d[2] + d[3] + d[4] + d[5] = n
            /\ bsResult.count = n

\* Witness of C17: the scores 0.0, 0.2, 0.4, 0.6, 1.0 fill each bucket once.
C17_Witness ==
    /\ bsPhase = "done"
    /\ bsScores = <<Frac(0, 1), Frac(1, 5), Frac(2, 5), Frac(3, 5), Frac(1, 1)>>
    /\ bsResult.distribution = <<1, 1, 1, 1, 1>>


\* A call of embed_text with a non-blank text that the cache did not answer.
EmLookedUp ==
    /\ emLast.text \notin {NoneV, "<idle>"}
    /\ ~IsBlank(emLast.text)
    /\ ~emLast.from_cache

\* C21: on a lookup that the cache does not answer, the local backend is
\* called first when it is configured and loaded; when the local backend is
\* configured but not loaded, or its call fails, a remote provider whose
\* credentials are configured is called next; the result is no embedding only
\* after every backend called has failed.
C21_LocalFirstThenRemoteFallback ==
    EmLookedUp =>
        /\ emModel => emLast.local.kind # "not_called"
        /\ emLast.local.kind = "ok" => emLast.remote.kind = "not_called"
        /\ (/\ emCfg.EMBEDDING_SERVICE = "local"
            /\ emLast.local.kind # "ok"
            /\ emCfg.HAS_REQUESTS
            /\ emCfg.OPENROUTER_API_KEY \/ emCfg.HF_TOKEN)
           => emLast.remote.kind # "not_called"
        /\ emLast.result = NoneV =>
               (emLast.local.kind # "ok" /\ emLast.remote.kind # "ok")

\* C22: within the lifetime of one EventVectorizer, once embed_text(t) has
\* returned an embedding every later call with the same text returns that
\* embedding without calling a provider, and the cache answers a call only
\* with an embedding that an earlier call with exactly that text returned.
C22_CacheIsKeyedByExactText ==
    (emLast.text \notin {NoneV, "<idle>"} /\ ~IsBlank(emLast.text)) =>
        /\ emLast.known # NoneV =>
               /\ emLast.result = emLast.known
               /\ emLast.local.kind = "not_called"
               /\ emLast.remote.kind = "not_called"
        /\ emLast.from_cache => emLast.known = emLast.result

\* C23: the distance the script partitions with is the one selected by
\* `method` (dtw: elastic alignment, kmeans: Euclidean on flattened vectors),
\* and the `method` field of the output names the metric actually used.
C23_MethodSelectsAndNamesTheMetric ==
    clPhase \in {"done", "again"} =>
        /\ clFit.metric = clIn.method
        /\ clOut.status = "ok" => clOut.method = clFit.metric

\* |len(member) - mean member length| of the cluster with members idxs, times
\* the number of members (so that it stays an integer).
C24_Distance(idx, idxs) ==
    LET total == SumLen(idxs, clIn.seqs)
        mine == Len(clIn.seqs[idx + 1]) * Len(idxs)
    IN  IF mine >= total THEN mine - total ELSE total - mine

C25_Events ==
    Flatten([i \in 1..Len(ctIn.cluster_sequences) |->
                 ctIn.all_sequences[ctIn.cluster_sequences[i] + 1]])

C25_Typed == {t \in Range(C25_Events) : t \notin {NoneV, Missing, ""}}

C25_Freq(t) == Cardinality({i \in 1..Len(C25_Events) : C25_Events[i] = t})

C25_First(t) == CHOOSE i \in 1..Len(C25_Events) :
                    C25_Events[i] = t /\ \A j \in 1..(i - 1) : C25_Events[j] # t

\* t is reported before u: more frequent, or as frequent and met first.
C25_Before(t, u) ==
    \/ C25_Freq(t) > C25_Freq(u)
    \/ C25_Freq(t) = C25_Freq(u) /\ C25_First(t) < C25_First(u)

\* C25: the reported event types are the (at most five) most frequent
\* event_type values over all events of all member sequences, in descending
\* frequency, equal frequencies in order of first occurrence; no type is
\* listed twice and events without a type are not counted.
C25_TopFiveTypesByFrequency ==
    ctPhase = "done" =>
        /\ Range(ctOut) \subseteq C25_Typed
        /\ Len(ctOut) = IF Cardinality(C25_Typed) < 5 THEN Cardinality(C25_Typed) ELSE 5
        /\ \A i, j \in 1..Len(ctOut) : i < j => C25_Before(ctOut[i], ctOut[j])
        /\ \A u \in C25_Typed \ Range(ctOut) :
               \A i \in 1..Len(ctOut) : C25_Before(ctOut[i], u)

\* A cluster with more than five types, an event without a type, reported
\* types of different and of equal frequency, and a type cut off at the same
\* frequency as the last reported one.
C25_Witness ==
    /\ ctPhase = "done"
    /\ Cardinality(C25_Typed) > 5
    /\ Range(C25_Events) # C25_Typed
    /\ \E i \in 1..(Len(ctOut) - 1) : C25_Freq(ctOut[i]) > C25_Freq(ctOut[i + 1])
    /\ \E i \in 1..(Len(ctOut) - 1) : C25_Freq(ctOut[i]) = C25_Freq(ctOut[i + 1])
    /\ \E u \in C25_Typed \ Range(ctOut) : C25_Freq(u) = C25_Freq(ctOut[Len(ctOut)])

\* C26: the diff files used for a prompt's CP are exactly the distinct
\* non-null file paths of changed entries that reference the prompt by
\* foreign key or whose timestamp lies within the configured window following
\* the prompt's timestamp; an entry outside that window with no foreign key
\* to the prompt is never included.
C26_DiffFilesAreFkOrFollowingWindow ==
    (gePhase = "done" /\ geIn.prompt_found) =>
        Range(geOut) =
            {geIn.entries[i].file_path :
                i \in {j \in 1..Len(geIn.entries) :
                          LET e == geIn.entries[j]
                          IN  /\ e.file_path # NoneV
                              /\ e.code[1] # e.code[2]
                              /\ \/ e.prompt_id = "p1"
                                 \/ /\ e.timestamp >= PromptTime
                                    /\ e.timestamp <= PromptTime + CP_TIME_WINDOW_SECONDS}}

\* C27: min_cp has no effect on cluster retention: whatever min_cp is,
\* build_behavioral_library returns every cluster the clustering engine
\* emitted, unchanged and in the same order, with clusters_found equal to its
\* length and total_sequences equal to the number of extracted sequences; any
\* other min_cp on the same data gives the same result.
C27_MinCpDoesNotFilter ==
    (lbPc = "returned" /\ "behavioral_library" \in lbResult.keys) =>
        /\ lbResult.behavioral_library = lbClu.behavioral_library
        /\ lbResult.clusters_found = Len(lbClu.behavioral_library)
        /\ lbResult.total_sequences = Len(lbSeqs)
        /\ \A other \in MinCpArgs :
               LibraryResult(lbSeqs, lbClu, EffectiveMinCp(other)) = lbResult

\* A library of two clusters returned under a positive threshold.
C27_Witness ==
    /\ lbPc = "returned"
    /\ lbIn.min_cp = "0.9"
    /\ Len(lbClu.behavioral_library) = 2
    /\ lbResult.clusters_found = 2

\* C28: cluster_sequences removes the temporary input file it created on
\* every exit path of the call (success, the subprocess exited non-zero or
\* could not be started, its output was not JSON, or writing the input
\* failed): once the call is over no file it created is left.
C28_TempFileRemovedOnEveryExit ==
    tfPc \in {"returned", "raised"} => tfFile = "absent"

\* C29: after disconnect() has completed the client never becomes connected
\* again: is_connected stays False and no new websocket is opened, whatever
\* a pending reconnect attempt (sleeping out its delay or inside connect())
\* does afterwards.
C29_NoConnectionAfterDisconnect ==
    rtDisconnected => (~rtConnected /\ ~rtLate)

\* The connection self.websocket refers to was lost and disconnect() has not
\* been called.
C30_Lost ==
    /\ ~rtStop
    /\ rtWebsocket # 0
    /\ rtSockets[rtWebsocket] = "lost"

C30_Established == rtWebsocket # 0 /\ rtSockets[rtWebsocket] = "open"

\* C30: after an unexpected connection loss with no disconnect() call the
\* client keeps attempting to reconnect until a connection is established or
\* max_reconnect_attempts consecutive attempts have been made;
\* reconnect_attempts never exceeds max_reconnect_attempts, the delay before
\* the k-th consecutive attempt is reconnect_delay * 2^(k-1), and a
\* successful connect resets reconnect_attempts to 0.
C30_ReconnectsUntilConnectedOrExhausted ==
    /\ [](rtAttempts <= max_reconnect_attempts)
    /\ [](rtAttempts > 0 => rtDelay = reconnect_delay * Pow2(rtAttempts - 1))
    /\ [][C30_Established' /\ rtWebsocket' # rtWebsocket => rtAttempts' = 0]_vars
    /\ [](C30_Lost =>
             <>(C30_Established \/ rtAttempts = max_reconnect_attempts \/ rtStop))

=============================================================================
